---- MODULE Spec2Model ----
(***************************************************************************)
(* Directory entry resolution and pagination cache of the imagery folder   *)
(* browser: the ImageryCache class of the main process (cursor-addressed   *)
(* and index-addressed versions) and the DirectoryManager pull loop of the *)
(* renderer.  Calls are asynchronous: one action per synchronous segment   *)
(* between two awaits.                                                     *)
(***************************************************************************)
EXTENDS Integers, Sequences, FiniteSets, TLC

VARIABLES
  listing,      \* filesystem: root folder -> its directory entries (readdir order),
                \* or the error with which reading it is refused
  db,           \* sequelize tables: root folder -> Location row present, Entries rows
  dbOps,        \* database statements issued and not awaited (fire-and-forget)
  activePath,   \* ImageryCache.#activePath
  memory,       \* ImageryCache.memory: Map path -> session object (0 = no key)
  sessions,     \* heap of ImageryEntriesCache objects
  calls,        \* prepareEntries()/next() invocations suspended on an await
  lastRet,      \* what the call completed by the last step returned
  trace,        \* entries returned by next() since the last prepareEntries() was issued
  fsTouched,    \* a readdir or stat was issued since the last prepareEntries() was issued
  firstPass,    \* per folder, the entries returned up to the first done sentinel
  pass,         \* the folder of the last prepareEntries() that did not throw, and
                \* whether that folder had been resolved up to done before
  finished,     \* how often next() returned done since the last prepareEntries() (at most 2)
  opens,        \* prepareEntries() calls issued, where the caller issues a bounded number
  activePathCache,  \* ImageryCache.#activePathCache (index-addressed class; 0 = {})
  box,          \* DirectoryManager.box: dataset.path and the cards inserted
  loops,        \* DirectoryManager.addContent() invocations that have not settled
  entriesManager,   \* ImageryCache.entriesManager (snapshot-file class): path -> session
  cacheActivePath,  \* ImageryCache.#cacheActivePath (snapshot-file class)
  snapshots,    \* the snapshot files of the temporary directory: file name -> content
  fsOps,        \* writeFile and unlink calls issued and not settled
  remembered,   \* the folders prepareEntries was called for with cache = true
  saved,        \* per folder, the resolved entries of its session when the save()
                \* that created its database record was called
  now,          \* Date.now(), in days since the application was installed
  visited,      \* per folder, the day prepareEntries or next was last called for it
  history,      \* the History object: currentPath, #currentIndex (0-based), visited
  contentBox,   \* DirectoryScreen: innerHTML and dataset.path of #directory-contents
  currentAbortController,  \* DirectoryScreen: the loadContents() call that owns it (0 = null)
  renderCache,  \* Cache.#cache: folder path -> cached innerHTML
  loads         \* loadContents() invocations that have not returned

vars == <<listing, db, dbOps, activePath, memory, sessions, calls, lastRet,
          trace, fsTouched, firstPass, pass, finished, opens,
          activePathCache, box, loops,
          entriesManager, cacheActivePath, snapshots, fsOps, remembered, saved,
          now, visited,
          history, contentBox, currentAbortController, renderCache, loads>>

----------------------------------------------------------------------------
(* Bounds *)

MaxCalls == 2      \* invocations in flight at the same time
MaxEntries == 3    \* directory entries of an opened folder
MaxLoops == 2      \* addContent() invocations running at the same time
MaxOpens == 3      \* folders the user opens in one run
MaxVisits == 1     \* prepareEntries() calls of the caller that pulls to the end
MaxPulled == 2     \* directory entries of a folder that is pulled to the end

----------------------------------------------------------------------------
(* Values *)

NoPath == <<>>                      \* "" / null path
Undefined == <<"undefined">>        \* a property that the object does not have

\* A file or folder name is <<stem, extension>>; a path is the sequence of
\* the names from the root down.
rootA == << <<"A", "">> >>
rootB == << <<"B", "">> >>
Roots == {rootA, rootB}

join(path, name) == Append(path, name)
dirname(path) == IF Len(path) <= 1 THEN path ELSE SubSeq(path, 1, Len(path) - 1)
extname(name) == name[2]
basename(path) == path[Len(path)]

toLowerCase(ext) ==
  CASE ext = ".JPG" -> ".jpg"
    [] ext = ".MP4" -> ".mp4"
    [] ext = ".PNG" -> ".png"
    [] OTHER -> ext

ImageExtensions == {".jpg", ".jpeg", ".png", ".gif", ".webp", ".bmp"}
VideoExtensions == {".mp4", ".mkv", ".avi", ".mov", ".flv", ".wmv", ".webm", ".ts"}

isImageFile(name) == toLowerCase(extname(name)) \in ImageExtensions
isVideoFile(name) == toLowerCase(extname(name)) \in VideoExtensions
isMediaFile(name) == isImageFile(name) \/ isVideoFile(name)

FileGroupVIDEO == "video"
FileGroupIMAGE == "image"

----------------------------------------------------------------------------
(* The filesystem *)

File(stem, ext) == [name |-> <<stem, ext>>, type |-> "file"]
Dir(stem) == [name |-> <<stem, "">>, type |-> "dir"]

\* Directory entries an opened folder may hold.
EntryPool == { File("a", ".jpg"), File("b", ".MP4"), File("notes", ".txt"),
               Dir("trip"), Dir("empty"), Dir("locked") }

\* What lies below the sub-folders, by path relative to the opened folder.
\* trip/vacation/beach.png is media two levels down, empty/ holds no media,
\* locked/ cannot be read (EPERM).  nest/ holds media three levels down.
\* fork/ holds media at depth 3 in its first branch and at depth 2 in its
\* second.  wide/ and wider/ hold 9 and 10 sub-folders of which only the
\* last has media.  loop/ contains a folder loop/ at every depth.
Name(stem) == <<stem, "">>
Wn == <<"w1", "w2", "w3", "w4", "w5", "w6", "w7", "w8", "w9", "w10">>
Breadth(stem) == IF stem = "wide" THEN 9 ELSE IF stem = "wider" THEN 10 ELSE 0

IsLoop(rel) == Len(rel) >= 1 /\ \A i \in DOMAIN rel : rel[i] = Name("loop")

IsWide(rel) ==
  /\ Len(rel) \in {1, 2}
  /\ rel[1] \in {Name("wide"), Name("wider")}
  /\ Len(rel) = 2 => \E i \in 1 .. Breadth(rel[1][1]) : rel[2] = Name(Wn[i])

SubTree(rel) ==
  CASE rel = << <<"trip", "">> >> -> << Dir("vacation"), File("list", ".txt") >>
    [] rel = << <<"trip", "">>, <<"vacation", "">> >> ->
            << File("readme", ".txt"), File("beach", ".PNG"), File("clip", ".mp4") >>
    [] rel = << <<"empty", "">> >> -> << File("readme", ".txt"), Dir("inner") >>
    [] rel = << <<"empty", "">>, <<"inner", "">> >> -> << >>
    [] rel = << Name("album") >> -> << File("info", ".txt"), File("cover", ".png") >>
    [] rel = << Name("nest") >> -> << Dir("n1") >>
    [] rel = << Name("nest"), Name("n1") >> -> << File("todo", ".txt"), Dir("n2") >>
    [] rel = << Name("nest"), Name("n1"), Name("n2") >> -> << File("m", ".jpg") >>
    [] rel = << Name("fork") >> -> << Dir("p"), Dir("r") >>
    [] rel = << Name("fork"), Name("p") >> -> << Dir("q") >>
    [] rel = << Name("fork"), Name("p"), Name("q") >> -> << File("deep", ".jpg") >>
    [] rel = << Name("fork"), Name("r") >> ->
            << File("notes", ".txt"), File("second", ".mp4"), File("third", ".png") >>
    [] IsLoop(rel) -> << Dir("loop") >>
    [] IsWide(rel) /\ Len(rel) = 1 -> [i \in 1 .. Breadth(rel[1][1]) |-> Dir(Wn[i])]
    [] rel = << Name("wide"), Name("w9") >> -> << File("near", ".jpg") >>
    [] rel = << Name("wider"), Name("w10") >> -> << File("far", ".jpg") >>
    [] OTHER -> << >>

IsSubFolder(rel) ==
  \/ rel \in { << <<"trip", "">> >>, << <<"trip", "">>, <<"vacation", "">> >>,
               << <<"empty", "">> >>, << <<"empty", "">>, <<"inner", "">> >>,
               << Name("album") >>,
               << Name("nest") >>, << Name("nest"), Name("n1") >>,
               << Name("nest"), Name("n1"), Name("n2") >>,
               << Name("fork") >>, << Name("fork"), Name("p") >>,
               << Name("fork"), Name("p"), Name("q") >>,
               << Name("fork"), Name("r") >> }
  \/ IsLoop(rel)
  \/ IsWide(rel)

IsLocked(rel) == rel = << <<"locked", "">> >>

InListing(root, name, type) ==
  \E i \in DOMAIN listing[root] : listing[root][i] = [name |-> name, type |-> type]

\* The listing of a folder the user may not read: readdir fails with EPERM
\* (Windows access denied, macOS privacy protection) or with EACCES (POSIX
\* permission bits).
Denied(code) == << [name |-> <<code, "">>, type |-> "error"] >>
IsDenied(entries) == entries \in {Denied("EPERM"), Denied("EACCES")}

\* fs.promises.readdir(path, {withFileTypes: true}): the entries, EPERM, or
\* another error (EACCES, ENOENT, ENOTDIR).
readdir(path) ==
  LET root == SubSeq(path, 1, 1)
      rel == Tail(path)
  IN  IF Len(path) = 0 \/ root \notin Roots
        THEN [status |-> "ENOENT", entries |-> << >>]
      ELSE IF Len(path) = 1 /\ IsDenied(listing[root])
        THEN [status |-> listing[root][1].name[1], entries |-> << >>]
      ELSE IF Len(path) = 1
        THEN [status |-> "ok", entries |-> listing[root]]
      ELSE IF ~ InListing(root, path[2], "dir")
        THEN [status |-> "ENOENT", entries |-> << >>]
      ELSE IF IsLocked(rel)
        THEN [status |-> "EPERM", entries |-> << >>]
      ELSE IF IsSubFolder(rel)
        THEN [status |-> "ok", entries |-> SubTree(rel)]
      ELSE [status |-> "ENOENT", entries |-> << >>]

\* helpers.js readFolder: EPERM gives [], any other error is thrown again.
readFolder(path) ==
  LET r == readdir(path)
  IN  IF r.status = "ok" THEN [threw |-> FALSE, entries |-> r.entries]
      ELSE IF r.status = "EPERM" THEN [threw |-> FALSE, entries |-> << >>]
      ELSE [threw |-> TRUE, entries |-> << >>]

\* fs.promises.stat(path) succeeds exactly when the path exists.
PathExists(path) ==
  /\ Len(path) >= 1
  /\ SubSeq(path, 1, 1) \in Roots
  /\ \/ Len(path) = 1
     \/ LET parent == readdir(dirname(path))
        IN  /\ parent.status = "ok"
            /\ \E i \in DOMAIN parent.entries : parent.entries[i].name = basename(path)

----------------------------------------------------------------------------
(* Records *)

CallIds == 1 .. MaxCalls
LoopIds == 1 .. MaxLoops
SessionIds == 1 .. (Cardinality(Roots) + MaxCalls)

\* ImageryEntry.  src is not a field of the program's object: it records the
\* folder from whose directory listing the entry was built.
ImageryEntry(index, title, destination, isMedia, path, thumbnailType, thumbnailPath, src) ==
  [index |-> index, title |-> title, destination |-> destination,
   isMedia |-> isMedia, path |-> path, thumbnailType |-> thumbnailType,
   thumbnailPath |-> thumbnailPath, cachedThumbnail |-> NoPath,
   size |-> "", dateCreated |-> "", dateModified |-> "", dateTaken |-> "",
   src |-> src]

NoEntry == ImageryEntry(-1, Undefined, NoPath, FALSE, NoPath, "", NoPath, NoPath)

\* ImageryDirent, as prepareEntries maps the Dirent objects.
ImageryDirent(index, entry) ==
  [index |-> index, name |-> entry.name,
   isFile |-> entry.type = "file",
   isCompatibleFile |-> entry.type = "file" /\ isMediaFile(entry.name),
   isDirectory |-> entry.type = "dir"]

\* ImageryEntriesCache.  owner is not a field of the program's object: it is
\* the folder the object was created for.  No code path of this class
\* assigns persistData, so it reads as undefined.
ImageryEntriesCache(owner, allEntries, okEntries) ==
  [exists |-> TRUE, owner |-> owner, currentIndex |-> 0, processed |-> 0,
   okEntries |-> okEntries, allEntries |-> allEntries, persistData |-> "undefined"]

NoSession ==
  [exists |-> FALSE, owner |-> NoPath, currentIndex |-> 0, processed |-> 0,
   okEntries |-> << >>, allEntries |-> << >>, persistData |-> "undefined"]

\* The position of a call.  dequeued is not a variable of next(): it lists
\* the folders the call has taken from its queue and read, in that order.
IdleCall ==
  [op |-> "idle", pc |-> "idle", path |-> NoPath, cache |-> 0,
   title |-> Undefined, queue |-> << >>, currentFolderPath |-> NoPath,
   firstValidParent |-> NoPath, foldersTraversed |-> 0,
   entry |-> NoEntry, stale |-> FALSE, loop |-> 0, dequeued |-> << >>,
   index |-> 0, total |-> 0]

NoRet == [op |-> "none", kind |-> "none", entry |-> NoEntry, path |-> NoPath,
          stale |-> FALSE, mutated |-> FALSE, cache |-> 0]

Ret(op, kind, entry, path, stale, mutated, cache) ==
  [op |-> op, kind |-> kind, entry |-> entry, path |-> path,
   stale |-> stale, mutated |-> mutated, cache |-> cache]

NoLocation == [present |-> FALSE, rows |-> << >>]

\* The directory container before the first open().
NoBox == [path |-> NoPath, cards |-> << >>]

\* An addContent() invocation: the call of the main process it awaits, the
\* kind of the last result it received from next-content, the number of
\* entries prepare-directory-contents reported, the indexes it has asked
\* for and the folder it was started for.
IdleLoop == [state |-> "idle", call |-> 0, last |-> "none",
             entriesLength |-> 0, processed |-> 0, path |-> NoPath]

\* new History(initialPath)
History(initialPath) ==
  [currentPath |-> initialPath, currentIndex |-> 0, visited |-> << initialPath >>]

\* The folder the exported history object starts in: 'D:\\'.
InitialPath == << <<"D:", "">> >>

\* The empty string as innerHTML, which is also what Cache.get treats as
\* absent.  An innerHTML is the cells of one folder; of is the folder whose
\* path the data-path attributes of the cells start with.
NoHtml == [of |-> NoPath, cells |-> << >>, thumbnails |-> FALSE]

\* #directory-contents before the first loadContents(); nodes is the
\* loadContents() call that created the elements now in the container.
NoContentBox == [innerHTML |-> NoHtml, nodes |-> 0, path |-> NoPath]

\* The position of a loadContents() call.
IdleLoad == [state |-> "idle", path |-> NoPath, aborted |-> FALSE]

----------------------------------------------------------------------------
(* Object heap *)

Referenced(mem, cls) ==
  ({mem[p] : p \in Roots} \cup {cls[c].cache : c \in CallIds}) \ {0}

\* Session objects nothing refers to any more are garbage.
Collect(sess, mem, cls) ==
  [i \in SessionIds |-> IF i \in Referenced(mem, cls) THEN sess[i] ELSE NoSession]

NewId(mem, cls) ==
  CHOOSE i \in SessionIds :
    /\ i \notin Referenced(mem, cls)
    /\ \A j \in SessionIds : j < i => j \in Referenced(mem, cls)

IdleCalls == {c \in CallIds : calls[c].op = "idle"}
FreeCall == CHOOSE c \in IdleCalls : \A d \in IdleCalls : c <= d

\* #getCache(folderPath): the session object, or null (0).
getCache(folderPath) == IF folderPath \in Roots THEN memory[folderPath] ELSE 0

\* A next() call becomes stale when the active path moves away from the
\* folder it was started for.
MarkStale(cls, newActive) ==
  [c \in CallIds |->
     IF cls[c].op = "next" /\ cls[c].path # newActive
       THEN [cls[c] EXCEPT !.stale = TRUE] ELSE cls[c]]

----------------------------------------------------------------------------
(* ImageryCache, cursor-addressed: prepareEntries *)

PrepareCall(folderPath, pc) ==
  [IdleCall EXCEPT !.op = "prepareEntries", !.pc = pc, !.path = folderPath]

PrepareRet(kind, folderPath) == Ret("prepareEntries", kind, NoEntry, folderPath, FALSE, FALSE, 0)

\* memory.set(folderPath, session) followed by the return of prepareEntries.
SetSession(c, session, newActive) ==
  LET cls == [calls EXCEPT ![c] = IdleCall]
      id == NewId(memory, cls)
      mem == [memory EXCEPT ![session.owner] = id]
  IN  /\ memory' = mem
      /\ activePath' = newActive
      /\ calls' = MarkStale(cls, newActive)
      /\ sessions' = Collect([sessions EXCEPT ![id] = session], mem, cls)
      /\ lastRet' = PrepareRet("ok", session.owner)

rewindKeepsCursor(session) == session

\* prepareEntries on an in-memory hit: currentIndex = 0.
rewind(session) == [session EXCEPT !.currentIndex = 0]

\* prepareEntries(folderPath) up to its first await: the switch-away branch
\* and the in-memory hit.
prepareEntries(folderPath) ==
  /\ IdleCalls # {}
  /\ LET c == FreeCall
         switching == activePath # NoPath /\ activePath # folderPath
         old == getCache(activePath)
         drop == switching /\ old # 0 /\ sessions[old].persistData = "false"
         mem == IF drop THEN [memory EXCEPT ![activePath] = 0] ELSE memory
         ops == IF drop
                  THEN dbOps \cup {[kind |-> "delete", path |-> activePath, entry |-> NoEntry]}
                  ELSE dbOps
     IN  IF switching /\ old = 0
           THEN \* memory.get(activePath) is undefined: reading .persistData throws
                /\ lastRet' = PrepareRet("throw", folderPath)
                /\ UNCHANGED <<listing, db, dbOps, activePath, memory, sessions, calls>>
         ELSE IF mem[folderPath] # 0
           THEN /\ memory' = mem
                /\ dbOps' = ops
                /\ activePath' = folderPath
                /\ calls' = MarkStale(calls, folderPath)
                /\ sessions' = Collect([sessions EXCEPT ![mem[folderPath]] = rewind(@)], mem, calls)
                /\ lastRet' = PrepareRet("ok", folderPath)
                /\ UNCHANGED <<listing, db>>
         ELSE /\ memory' = mem
              /\ dbOps' = ops
              /\ calls' = [calls EXCEPT ![c] = PrepareCall(folderPath, "pathInDatabase")]
              /\ sessions' = Collect(sessions, mem, calls')
              /\ lastRet' = NoRet
              /\ UNCHANGED <<listing, db, activePath>>

\* await this.#pathInDatabase(folderPath) has resolved.
prepareEntriesDbChecked(c) ==
  /\ calls[c].op = "prepareEntries" /\ calls[c].pc = "pathInDatabase"
  /\ IF db[calls[c].path].present
       THEN /\ calls' = [calls EXCEPT ![c].pc = "loadFindOne"]
            /\ UNCHANGED activePath
       ELSE /\ activePath' = calls[c].path
            /\ calls' = MarkStale([calls EXCEPT ![c].pc = "readFolder"], calls[c].path)
  /\ lastRet' = NoRet
  /\ UNCHANGED <<listing, db, dbOps, memory, sessions>>

\* #loadCachedEntry: Location.findOne has resolved.
prepareEntriesLocationFound(c) ==
  /\ calls[c].op = "prepareEntries" /\ calls[c].pc = "loadFindOne"
  /\ IF db[calls[c].path].present
       THEN /\ calls' = [calls EXCEPT ![c].pc = "loadFindAll"]
            /\ lastRet' = NoRet
            /\ UNCHANGED <<activePath, memory, sessions>>
       ELSE SetSession(c, ImageryEntriesCache(calls[c].path, << >>, << >>), calls[c].path)
  /\ UNCHANGED <<listing, db, dbOps>>

\* The titles a root folder can hold, in the order in which the database
\* compares them as text.
Collation == << "a", "album", "b", "empty", "fork", "locked", "loop", "nest", "notes",
               "trip", "wide", "wider" >>

collate(title) == CHOOSE i \in DOMAIN Collation : Collation[i] = title[1]

Without(rows, m) == [i \in 1 .. (Len(rows) - 1) |-> IF i < m THEN rows[i] ELSE rows[i + 1]]

\* ORDER BY title DESC.
RECURSIVE orderByTitleDesc(_)
orderByTitleDesc(rows) ==
  IF rows = << >> THEN << >>
  ELSE LET m == CHOOSE i \in DOMAIN rows :
                  \A j \in DOMAIN rows :
                    \/ collate(rows[j].title) < collate(rows[i].title)
                    \/ collate(rows[j].title) = collate(rows[i].title) /\ i <= j
       IN  << rows[m] >> \o orderByTitleDesc(Without(rows, m))

\* #loadCachedEntry: Entries.findAll({order: ["title", "DESC"]}) has settled.
\* Whether the library accepts this order clause is not decided by the
\* repository: the query either fails (DESC taken as a second column) or
\* yields the rows of the location by descending title.
prepareEntriesLoaded(c) ==
  /\ calls[c].op = "prepareEntries" /\ calls[c].pc = "loadFindAll"
  /\ \E outcome \in {"rows", "error"} :
       IF outcome = "error"
         THEN /\ calls' = [calls EXCEPT ![c] = IdleCall]
              /\ lastRet' = PrepareRet("throw", calls[c].path)
              /\ UNCHANGED <<activePath, memory, sessions>>
         ELSE SetSession(c, ImageryEntriesCache(calls[c].path, << >>,
                                                orderByTitleDesc(db[calls[c].path].rows)),
                         calls[c].path)
  /\ UNCHANGED <<listing, db, dbOps>>

\* await readFolder(folderPath) has settled (cold path).
prepareEntriesRead(c) ==
  /\ calls[c].op = "prepareEntries" /\ calls[c].pc = "readFolder"
  /\ LET r == readFolder(calls[c].path)
         allEntries == [i \in DOMAIN r.entries |-> ImageryDirent(i - 1, r.entries[i])]
     IN  IF r.threw
           THEN /\ calls' = [calls EXCEPT ![c] = IdleCall]
                /\ lastRet' = PrepareRet("throw", calls[c].path)
                /\ UNCHANGED <<activePath, memory, sessions>>
           ELSE SetSession(c, ImageryEntriesCache(calls[c].path, allEntries, << >>), activePath)
  /\ UNCHANGED <<listing, db, dbOps>>

----------------------------------------------------------------------------
(* ImageryCache, cursor-addressed: next and #pushNewEntry *)

NextRet(kind, entry, c, mutated) ==
  Ret("next", kind, entry, calls[c].path, calls[c].stale, mutated, calls[c].cache)

thumbnailTypeOf(path) ==
  IF isVideoFile(basename(path)) THEN FileGroupVIDEO ELSE FileGroupIMAGE

\* The name property of a stored entry: entries carry title, not name.
itemName(item) == Undefined

\* okEntries.findIndex(item => item.name === title), 0-based, -1 if none.
findIndex(okEntries, title) ==
  LET hits == {i \in DOMAIN okEntries : itemName(okEntries[i]) = title}
  IN  IF hits = {} THEN -1
      ELSE (CHOOSE i \in hits : \A j \in hits : i <= j) - 1

populateMetadataUnguarded(entry) ==
  [entry EXCEPT !.size = "size", !.dateCreated = "birthtime",
                !.dateModified = "mtime", !.dateTaken = "birthtime"]

\* #populateMetadata(path): the stat values, or four empty strings when stat
\* fails.
populateMetadata(entry) ==
  IF PathExists(entry.path)
    THEN [entry EXCEPT !.size = "size", !.dateCreated = "birthtime",
                       !.dateModified = "mtime", !.dateTaken = "birthtime"]
    ELSE [entry EXCEPT !.size = "", !.dateCreated = "", !.dateModified = "",
                       !.dateTaken = ""]

\* cachedThumbnail as it is stored and returned: the path for an image, ''
\* for anything else (the pending thumbnail promise is replaced by '').
withCachedThumbnail(entry) ==
  [entry EXCEPT !.cachedThumbnail =
     IF entry.thumbnailType # FileGroupIMAGE THEN NoPath ELSE entry.thumbnailPath]

storeEntryKeepsCursor(session, entry) ==
  [session EXCEPT !.okEntries = Append(session.okEntries, entry)]

\* The resolved entry is stored in the session: replaced in place when
\* findIndex finds it, appended otherwise; the cursor advances.
storeEntry(session, entry) ==
  LET indexToReplace == findIndex(session.okEntries, entry.title)
  IN  [session EXCEPT
         !.okEntries = IF indexToReplace > -1
                         THEN [session.okEntries EXCEPT ![indexToReplace + 1] = entry]
                         ELSE Append(session.okEntries, entry),
         !.currentIndex = session.currentIndex + 1]

exhaustedOneEarly(session) == session.processed + 1 >= Len(session.allEntries)

\* cache.processed >= allEntries.length
exhausted(session) == session.processed >= Len(session.allEntries)

consumeTwo(session) == [session EXCEPT !.processed = session.processed + 2]

consumeNothing(session) == session

\* cache.processed++
consume(session) == [session EXCEPT !.processed = session.processed + 1]

\* next() up to its first await.
next ==
  /\ IdleCalls # {}
  /\ LET c == FreeCall
         cache == getCache(activePath)
         started == [IdleCall EXCEPT !.op = "next", !.path = activePath, !.cache = cache]
     IN  IF activePath = NoPath \/ cache = 0
           THEN \* throw Error("Cannot find active path" / "Cannot find cache ...")
                /\ lastRet' = Ret("next", "throw", NoEntry, activePath, FALSE, FALSE, 0)
                /\ UNCHANGED <<sessions, calls, dbOps>>
         ELSE LET session == sessions[cache] IN
           IF session.currentIndex < Len(session.okEntries)
             THEN \* entryExist
                  /\ sessions' = [sessions EXCEPT ![cache].currentIndex = session.currentIndex + 1]
                  /\ lastRet' = Ret("next", "entry", session.okEntries[session.currentIndex + 1],
                                    activePath, FALSE, TRUE, cache)
                  /\ UNCHANGED <<calls, dbOps>>
           ELSE IF exhausted(session)
             THEN /\ sessions' = [sessions EXCEPT ![cache].processed = Len(session.allEntries)]
                  /\ lastRet' = Ret("next", "done", NoEntry, activePath, FALSE, FALSE, cache)
                  /\ UNCHANGED <<calls, dbOps>>
           ELSE LET currentEntry == session.allEntries[session.processed + 1]
                    entryPath == join(activePath, currentEntry.name)
                    advanced == [sessions EXCEPT ![cache] = consume(session)]
                IN  /\ sessions' = advanced
                    /\ UNCHANGED dbOps
                    /\ IF currentEntry.isFile /\ ~ currentEntry.isCompatibleFile
                         THEN /\ lastRet' = Ret("next", "null", NoEntry, activePath, FALSE, TRUE, cache)
                              /\ UNCHANGED calls
                       ELSE IF currentEntry.isFile
                         THEN /\ calls' = [calls EXCEPT ![c] =
                                   [started EXCEPT !.pc = "stat", !.title = currentEntry.name,
                                      !.entry = ImageryEntry(session.currentIndex, currentEntry.name,
                                                  activePath, TRUE, entryPath,
                                                  thumbnailTypeOf(entryPath), entryPath,
                                                  session.owner)]]
                              /\ lastRet' = NoRet
                       ELSE IF currentEntry.isDirectory
                         THEN /\ calls' = [calls EXCEPT ![c] =
                                   [started EXCEPT !.pc = "readFolder", !.title = currentEntry.name,
                                      !.currentFolderPath = entryPath,
                                      !.dequeued = << entryPath >>,
                                      !.entry = [NoEntry EXCEPT !.src = session.owner]]]
                              /\ lastRet' = NoRet
                       ELSE /\ lastRet' = Ret("next", "null", NoEntry, activePath, FALSE, TRUE, cache)
                            /\ UNCHANGED calls
  /\ UNCHANGED <<listing, db, activePath, memory>>

anyEntry(subEntries) == DOMAIN subEntries

anyFile(subEntries) == {i \in DOMAIN subEntries : subEntries[i].type = "file"}

\* The sub-entries for which subEntry.isFile() && isMediaFile(subEntry.name).
mediaOf(subEntries) ==
  {i \in DOMAIN subEntries : subEntries[i].type = "file" /\ isMediaFile(subEntries[i].name)}

keepSearchingOneMore(queue, foldersTraversed) == Len(queue) > 0 /\ foldersTraversed < 11

\* while (queue.length > 0 && foldersTraversed < 10)
keepSearching(queue, foldersTraversed) == Len(queue) > 0 /\ foldersTraversed < 10

pushFront(queue, subFolderPaths) == subFolderPaths \o queue

\* queue.push(join(currentFolderPath, subEntry.name)) for every sub-folder
push(queue, subFolderPaths) == queue \o subFolderPaths

containingFolder(firstValidParent, currentFolderPath) == currentFolderPath

\* firstValidParent || currentFolderPath
effectivePath(firstValidParent, currentFolderPath) ==
  IF firstValidParent # NoPath THEN firstValidParent ELSE currentFolderPath

\* One turn of the breadth-first loop of next(): await readFolder(
\* currentFolderPath) has settled.
nextFolderRead(c) ==
  /\ calls[c].op = "next" /\ calls[c].pc = "readFolder"
  /\ LET call == calls[c]
         r == readFolder(call.currentFolderPath)
         subEntries == r.entries
         media == mediaOf(subEntries)
         hasMedia == media # {}
         firstValidParent == IF call.foldersTraversed > 0 /\ call.firstValidParent = NoPath
                               THEN dirname(call.currentFolderPath)
                               ELSE call.firstValidParent
         found == subEntries[CHOOSE i \in media : \A j \in media : i <= j]
         thumbnailPath == join(call.currentFolderPath, found.name)
         subFolders == SelectSeq(subEntries, LAMBDA e : e.type = "dir")
         queue == push(call.queue, [i \in DOMAIN subFolders |->
                                      join(call.currentFolderPath, subFolders[i].name)])
         foldersTraversed == call.foldersTraversed + 1
     IN  IF r.threw
           THEN /\ calls' = [calls EXCEPT ![c] = IdleCall]
                /\ lastRet' = NextRet("throw", NoEntry, c, FALSE)
         ELSE IF hasMedia
           THEN /\ calls' = [calls EXCEPT ![c] =
                     [call EXCEPT !.pc = "stat", !.firstValidParent = firstValidParent,
                        !.entry = ImageryEntry(sessions[call.cache].currentIndex, call.title,
                                    activePath, FALSE,
                                    effectivePath(firstValidParent, call.currentFolderPath),
                                    thumbnailTypeOf(thumbnailPath), thumbnailPath,
                                    call.entry.src)]]
                /\ lastRet' = NoRet
         ELSE IF keepSearching(queue, foldersTraversed)
           THEN /\ calls' = [calls EXCEPT ![c] =
                     [call EXCEPT !.currentFolderPath = Head(queue), !.queue = Tail(queue),
                                  !.foldersTraversed = foldersTraversed,
                                  !.dequeued = Append(call.dequeued, Head(queue))]]
                /\ lastRet' = NoRet
         ELSE /\ calls' = [calls EXCEPT ![c] = IdleCall]
              /\ lastRet' = NextRet("null", NoEntry, c, FALSE)
  /\ sessions' = Collect(sessions, memory, calls')
  /\ UNCHANGED <<listing, db, dbOps, activePath, memory>>

\* #pushNewEntry after await this.#populateMetadata(path): the entry is
\* stored, the database copy is updated without being awaited, the entry is
\* returned.  The database runs its statements in the order they are issued,
\* so Location.findOne({path: activePath}) sees the tables as they are now;
\* the Entries.update of its then-callback is issued later.
pushNewEntry(c) ==
  /\ calls[c].op = "next" /\ calls[c].pc = "stat"
  /\ LET call == calls[c]
         entry == withCachedThumbnail(populateMetadata(call.entry))
         cls == [calls EXCEPT ![c] = IdleCall]
     IN  /\ calls' = cls
         /\ sessions' = Collect([sessions EXCEPT ![call.cache] = storeEntry(@, entry)],
                                memory, cls)
         /\ dbOps' = IF db[activePath].present
                       THEN dbOps \cup {[kind |-> "update", path |-> activePath, entry |-> entry]}
                       ELSE dbOps
         /\ lastRet' = NextRet("entry", entry, c, TRUE)
  /\ UNCHANGED <<listing, db, activePath, memory>>

\* A statement of the database that nobody awaits takes effect.
\* update: Entries.update(entry) where title and locationID match.
\* delete: #deleteDatabaseRecord(path).
dbStatement ==
  \E op \in dbOps :
    /\ dbOps' = dbOps \ {op}
    /\ IF ~ db[op.path].present
         THEN UNCHANGED db
       ELSE IF op.kind = "update"
         THEN LET rows == db[op.path].rows
              IN  db' = [db EXCEPT ![op.path].rows =
                           [i \in DOMAIN rows |->
                              IF rows[i].title = op.entry.title THEN op.entry ELSE rows[i]]]
       ELSE db' = [db EXCEPT ![op.path] = NoLocation]
    /\ lastRet' = NoRet
    /\ UNCHANGED <<listing, activePath, memory, sessions, calls>>

----------------------------------------------------------------------------
(* ImageryCache, cursor-addressed: save *)

SaveRet(kind, path) == Ret("save", kind, NoEntry, path, FALSE, FALSE, 0)

\* save() up to its first await: Location.create({path: this.#activePath})
\* is issued.
saveLocation ==
  /\ IdleCalls # {}
  /\ calls' = [calls EXCEPT ![FreeCall] =
                 [IdleCall EXCEPT !.op = "save", !.pc = "createLocation", !.path = activePath]]
  /\ lastRet' = NoRet
  /\ UNCHANGED <<listing, db, dbOps, activePath, memory, sessions>>

\* Location.create has settled: path is unique, so a second row for the
\* same path is rejected.  Then the resolved entries of the session of the
\* path that is active now are read, and the first Entries.create is
\* issued.  The row of the empty path is not kept: nothing reads it.
saveLocationCreated(c) ==
  /\ calls[c].op = "save" /\ calls[c].pc = "createLocation"
  /\ LET path == calls[c].path
         cache == getCache(activePath)
     IN  IF path \in Roots /\ db[path].present
           THEN /\ calls' = [calls EXCEPT ![c] = IdleCall]
                /\ lastRet' = SaveRet("throw", path)
                /\ UNCHANGED db
         ELSE /\ db' = IF path \in Roots
                         THEN [db EXCEPT ![path] = [present |-> TRUE, rows |-> << >>]]
                         ELSE db
              /\ IF cache = 0
                   THEN \* #getCache returns null: reading .okEntries throws
                        /\ calls' = [calls EXCEPT ![c] = IdleCall]
                        /\ lastRet' = SaveRet("throw", path)
                 ELSE IF sessions[cache].okEntries = << >>
                   THEN /\ calls' = [calls EXCEPT ![c] = IdleCall]
                        /\ lastRet' = SaveRet("ok", path)
                 ELSE /\ calls' = [calls EXCEPT ![c] =
                             [@ EXCEPT !.pc = "createEntry", !.cache = cache, !.index = 0,
                                       !.total = Len(sessions[cache].okEntries)]]
                      /\ lastRet' = NoRet
  /\ UNCHANGED <<listing, dbOps, activePath, memory, sessions>>

\* The index values of all rows of the Entries table (index is its primary
\* key).
indexes(database) ==
  {database[p].rows[i].index : <<p, i>> \in
     {<<p, i>> \in Roots \X (1 .. MaxEntries) : i \in DOMAIN database[p].rows}}

\* Entries.create({locationID: location.id, ...entry}) has settled for
\* entries[index]: the row carries the entry's own index as primary key, so
\* it is rejected when a row of any location has that index.
saveEntryCreated(c) ==
  /\ calls[c].op = "save" /\ calls[c].pc = "createEntry"
  /\ LET call == calls[c]
         entry == sessions[call.cache].okEntries[call.index + 1]
     IN  IF entry.index \in indexes(db)
           THEN /\ calls' = [calls EXCEPT ![c] = IdleCall]
                /\ lastRet' = SaveRet("throw", call.path)
                /\ UNCHANGED db
         ELSE /\ db' = IF call.path \in Roots /\ db[call.path].present
                         THEN [db EXCEPT ![call.path].rows = Append(@, entry)]
                         ELSE db
              /\ IF call.index + 1 < call.total
                   THEN /\ calls' = [calls EXCEPT ![c].index = call.index + 1]
                        /\ lastRet' = NoRet
                   ELSE /\ calls' = [calls EXCEPT ![c] = IdleCall]
                        /\ lastRet' = SaveRet("ok", call.path)
  /\ UNCHANGED <<listing, dbOps, activePath, memory, sessions>>

\* The application is closed and started again: new ImageryCache().  The
\* database file stays, statements that have not run are lost.
restart ==
  /\ activePath' = NoPath
  /\ memory' = [p \in Roots |-> 0]
  /\ sessions' = [i \in SessionIds |-> NoSession]
  /\ calls' = [c \in CallIds |-> IdleCall]
  /\ dbOps' = {}
  /\ lastRet' = NoRet
  /\ UNCHANGED <<listing, db>>

----------------------------------------------------------------------------
(* Observations kept for the properties *)

SameCall(a, b) == [a EXCEPT !.stale = FALSE] = [b EXCEPT !.stale = FALSE]

IssuedFsRead ==
  \E c \in CallIds : calls'[c].pc \in {"readFolder", "stat"} /\ ~ SameCall(calls'[c], calls[c])

\* save() was called in this step for a folder that has a session and no
\* record in the database yet.
IssuedSave ==
  /\ \E c \in CallIds : calls'[c].op = "save" /\ calls[c].op = "idle"
  /\ getCache(activePath) # 0
  /\ ~ db[activePath].present

NotSaved == [put |-> FALSE, okEntries |-> << >>]
NotSeen == [seen |-> FALSE, entries |-> << >>]
NoPass == [path |-> NoPath, again |-> FALSE]

Observe(openIssued, folderPath) ==
  /\ pass' = IF lastRet'.op = "prepareEntries" /\ lastRet'.kind = "throw" THEN NoPass
             ELSE IF openIssued
               THEN [path |-> folderPath, again |-> firstPass[folderPath].seen]
             ELSE pass
  /\ finished' = IF openIssued THEN 0
                 ELSE IF lastRet'.op = "next" /\ lastRet'.kind = "done" /\ finished < 2
                   THEN finished + 1
                 ELSE finished
  /\ trace' = IF openIssued THEN << >>
              ELSE IF lastRet'.op = "next" /\ lastRet'.kind = "entry"
                THEN Append(trace, lastRet'.entry)
              ELSE trace
  /\ fsTouched' = IF openIssued THEN IssuedFsRead ELSE fsTouched \/ IssuedFsRead
  /\ firstPass' = IF lastRet'.op = "next" /\ lastRet'.kind = "done"
                     /\ pass.path = lastRet'.path
                     /\ ~ firstPass[lastRet'.path].seen
                    THEN [firstPass EXCEPT ![lastRet'.path] = [seen |-> TRUE, entries |-> trace']]
                    ELSE firstPass
  /\ saved' = IF IssuedSave
                THEN [saved EXCEPT ![activePath] =
                        [put |-> TRUE, okEntries |-> sessions[getCache(activePath)].okEntries]]
                ELSE saved

Unobserved == UNCHANGED <<trace, fsTouched, firstPass, pass, finished, saved>>

Uncounted == UNCHANGED opens

\* The main-process classes and DirectoryManager touch neither the
\* navigation history nor the DirectoryScreen that renders whole folders.
NoScreen == UNCHANGED <<history, contentBox, currentAbortController, renderCache, loads>>

\* The cursor-addressed class has no #activePathCache field.
NoView == UNCHANGED <<activePathCache, box, loops>>

\* The classes that keep their sessions in the database or in memory only
\* write no snapshot file and never read the clock.
NoSnapshots ==
  UNCHANGED <<entriesManager, cacheActivePath, snapshots, fsOps, remembered, now, visited>>

----------------------------------------------------------------------------
(* Initial states *)

\* Every folder of at most MaxEntries entries with distinct names.
Folders ==
  {s \in UNION {[1 .. n -> EntryPool] : n \in 0 .. MaxEntries} :
     \A i, j \in DOMAIN s : s[i] = s[j] => i = j}

\* Rows a previous run of the application left in the database for rootB.
PriorRows ==
  << [ImageryEntry(0, <<"b", ".MP4">>, rootB, TRUE, join(rootB, <<"b", ".MP4">>),
                   FileGroupVIDEO, join(rootB, <<"b", ".MP4">>), rootB)
        EXCEPT !.size = "size", !.dateCreated = "birthtime",
               !.dateModified = "mtime", !.dateTaken = "birthtime"] >>

Databases ==
  { [p \in Roots |-> NoLocation],
    [p \in Roots |-> IF p = rootB THEN [present |-> TRUE, rows |-> PriorRows]
                                  ELSE NoLocation] }

InitCache ==
  /\ dbOps = {}
  /\ activePath = NoPath
  /\ memory = [p \in Roots |-> 0]
  /\ sessions = [i \in SessionIds |-> NoSession]
  /\ calls = [c \in CallIds |-> IdleCall]
  /\ lastRet = NoRet
  /\ trace = << >>
  /\ fsTouched = FALSE
  /\ firstPass = [p \in Roots |-> NotSeen]
  /\ pass = NoPass
  /\ finished = 0
  /\ opens = 0
  /\ activePathCache = 0
  /\ box = NoBox
  /\ loops = [l \in LoopIds |-> IdleLoop]
  /\ cacheActivePath = FALSE
  /\ fsOps = {}
  /\ remembered = {}
  /\ saved = [p \in Roots |-> NotSaved]
  /\ now = 0
  /\ history = History(InitialPath)
  /\ contentBox = NoContentBox
  /\ currentAbortController = 0
  /\ renderCache = [p \in Roots |-> NoHtml]
  /\ loads = [l \in LoopIds |-> IdleLoad]

\* Concurrent callers on two folders, one of which may have a database record.
Init ==
  /\ listing = [p \in Roots |->
                  IF p = rootA
                    THEN << File("a", ".jpg"), Dir("trip"), File("notes", ".txt") >>
                    ELSE << File("b", ".MP4"), Dir("empty") >>]
  /\ db \in Databases
  /\ InitCache
  /\ entriesManager = << >>
  /\ snapshots = << >>
  /\ visited = << >>

Next ==
  \/ \E p \in Roots : prepareEntries(p) /\ Unobserved /\ Uncounted /\ NoScreen /\ NoView /\ NoSnapshots
  \/ \E c \in CallIds : prepareEntriesDbChecked(c) /\ Unobserved /\ Uncounted /\ NoScreen /\ NoView /\ NoSnapshots
  \/ \E c \in CallIds : prepareEntriesLocationFound(c) /\ Unobserved /\ Uncounted /\ NoScreen /\ NoView /\ NoSnapshots
  \/ \E c \in CallIds : prepareEntriesLoaded(c) /\ Unobserved /\ Uncounted /\ NoScreen /\ NoView /\ NoSnapshots
  \/ \E c \in CallIds : prepareEntriesRead(c) /\ Unobserved /\ Uncounted /\ NoScreen /\ NoView /\ NoSnapshots
  \/ next /\ Unobserved /\ Uncounted /\ NoScreen /\ NoView /\ NoSnapshots
  \/ \E c \in CallIds : nextFolderRead(c) /\ Unobserved /\ Uncounted /\ NoScreen /\ NoView /\ NoSnapshots
  \/ \E c \in CallIds : pushNewEntry(c) /\ Unobserved /\ Uncounted /\ NoScreen /\ NoView /\ NoSnapshots
  \/ dbStatement /\ Unobserved /\ Uncounted /\ NoScreen /\ NoView /\ NoSnapshots

Spec == Init /\ [][Next]_vars

----------------------------------------------------------------------------
(* One caller that awaits every call before it issues the next one.  It   *)
(* leaves no database statement pending: #pushNewEntry finds a Location    *)
(* row only for a folder that is served from its rows.                     *)

AllIdle == \A c \in CallIds : calls[c].op = "idle"

SeqInit ==
  /\ listing \in [Roots -> Folders]
  /\ listing[rootB] = << File("b", ".MP4"), Dir("empty") >>
  /\ db \in Databases
  /\ InitCache
  /\ entriesManager = << >>
  /\ snapshots = << >>
  /\ visited = << >>

SeqNext ==
  \/ \E p \in Roots : AllIdle /\ prepareEntries(p) /\ Observe(TRUE, p) /\ Uncounted /\ NoScreen /\ NoView /\ NoSnapshots
  \/ \E c \in CallIds : prepareEntriesDbChecked(c) /\ Observe(FALSE, NoPath) /\ Uncounted /\ NoScreen /\ NoView /\ NoSnapshots
  \/ \E c \in CallIds : prepareEntriesLocationFound(c) /\ Observe(FALSE, NoPath) /\ Uncounted /\ NoScreen /\ NoView /\ NoSnapshots
  \/ \E c \in CallIds : prepareEntriesLoaded(c) /\ Observe(FALSE, NoPath) /\ Uncounted /\ NoScreen /\ NoView /\ NoSnapshots
  \/ \E c \in CallIds : prepareEntriesRead(c) /\ Observe(FALSE, NoPath) /\ Uncounted /\ NoScreen /\ NoView /\ NoSnapshots
  \/ AllIdle /\ next /\ Observe(FALSE, NoPath) /\ Uncounted /\ NoScreen /\ NoView /\ NoSnapshots
  \/ \E c \in CallIds : nextFolderRead(c) /\ Observe(FALSE, NoPath) /\ Uncounted /\ NoScreen /\ NoView /\ NoSnapshots
  \/ \E c \in CallIds : pushNewEntry(c) /\ Observe(FALSE, NoPath) /\ Uncounted /\ NoScreen /\ NoView /\ NoSnapshots

SeqSpec == SeqInit /\ [][SeqNext]_vars

----------------------------------------------------------------------------
(* One caller that awaits every call, saves the folder it has open and     *)
(* closes the application, over a database that outlives the run.          *)

SaveFolders == { << File("a", ".jpg") >>,
                 << File("b", ".MP4"), File("a", ".jpg") >>,
                 << File("a", ".jpg"), Dir("trip") >>,
                 << File("notes", ".txt"), File("a", ".jpg") >> }

SaveInit ==
  /\ listing \in [Roots -> SaveFolders \cup {<< File("b", ".MP4"), Dir("empty") >>}]
  /\ listing[rootA] \in SaveFolders
  /\ listing[rootB] = << File("b", ".MP4"), Dir("empty") >>
  /\ db \in Databases
  /\ InitCache
  /\ entriesManager = << >>
  /\ snapshots = << >>
  /\ visited = << >>

\* A new run starts with no observation of the run before; what was saved
\* is remembered.
Restarted ==
  /\ trace' = << >>
  /\ fsTouched' = FALSE
  /\ firstPass' = [p \in Roots |-> NotSeen]
  /\ pass' = NoPass
  /\ finished' = 0
  /\ UNCHANGED saved

\* The statements that #pushNewEntry does not await have run before the
\* caller goes on.
SaveNext ==
  \/ dbOps = {} /\ SeqNext
  \/ AllIdle /\ dbOps = {} /\ activePath # NoPath /\ saveLocation /\ Observe(FALSE, NoPath) /\ Uncounted /\ NoScreen /\ NoView /\ NoSnapshots
  \/ \E c \in CallIds : saveLocationCreated(c) /\ Observe(FALSE, NoPath) /\ Uncounted /\ NoScreen /\ NoView /\ NoSnapshots
  \/ \E c \in CallIds : saveEntryCreated(c) /\ Observe(FALSE, NoPath) /\ Uncounted /\ NoScreen /\ NoView /\ NoSnapshots
  \/ dbStatement /\ Observe(FALSE, NoPath) /\ Uncounted /\ NoScreen /\ NoView /\ NoSnapshots
  \/ AllIdle /\ dbOps = {} /\ restart /\ Restarted /\ Uncounted /\ NoScreen /\ NoView /\ NoSnapshots

SaveSpec == SaveInit /\ [][SaveNext]_vars

----------------------------------------------------------------------------
(* The same caller on a folder that the user may not read *)

DeniedInit ==
  /\ listing \in [Roots -> {Denied("EPERM"), Denied("EACCES"),
                            << File("b", ".MP4"), Dir("empty") >>}]
  /\ IsDenied(listing[rootA])
  /\ listing[rootB] = << File("b", ".MP4"), Dir("empty") >>
  /\ db \in Databases
  /\ InitCache
  /\ entriesManager = << >>
  /\ snapshots = << >>
  /\ visited = << >>

DeniedSpec == DeniedInit /\ [][SeqNext]_vars

----------------------------------------------------------------------------
(* One caller that awaits every call, over folders whose entries another   *)
(* program deletes: promises.stat(path) of #populateMetadata then fails    *)
(* for an entry the directory read still listed.                           *)

\* Another program deletes entry i of folder p.
unlinked(p, i) ==
  /\ i \in DOMAIN listing[p]
  /\ listing' = [listing EXCEPT ![p] = Without(listing[p], i)]
  /\ lastRet' = NoRet
  /\ UNCHANGED <<db, dbOps, activePath, memory, sessions, calls>>

StatInit ==
  /\ listing \in [Roots -> SaveFolders \cup {<< File("b", ".MP4"), Dir("empty") >>}]
  /\ listing[rootA] \in SaveFolders
  /\ listing[rootB] = << File("b", ".MP4"), Dir("empty") >>
  /\ db \in Databases
  /\ InitCache
  /\ entriesManager = << >>
  /\ snapshots = << >>
  /\ visited = << >>

StatNext ==
  \/ SeqNext
  \/ \E p \in Roots : \E i \in DOMAIN listing[p] :
       unlinked(p, i) /\ Unobserved /\ Uncounted /\ NoScreen /\ NoView /\ NoSnapshots

StatSpec == StatInit /\ [][StatNext]_vars

----------------------------------------------------------------------------
(* Callers that await next() but open folders at any time *)

NoNextInFlight == \A c \in CallIds : calls[c].op # "next"

ReopenNext ==
  \/ \E p \in Roots : prepareEntries(p) /\ Unobserved /\ Uncounted /\ NoScreen /\ NoView /\ NoSnapshots
  \/ \E c \in CallIds : prepareEntriesDbChecked(c) /\ Unobserved /\ Uncounted /\ NoScreen /\ NoView /\ NoSnapshots
  \/ \E c \in CallIds : prepareEntriesLocationFound(c) /\ Unobserved /\ Uncounted /\ NoScreen /\ NoView /\ NoSnapshots
  \/ \E c \in CallIds : prepareEntriesLoaded(c) /\ Unobserved /\ Uncounted /\ NoScreen /\ NoView /\ NoSnapshots
  \/ \E c \in CallIds : prepareEntriesRead(c) /\ Unobserved /\ Uncounted /\ NoScreen /\ NoView /\ NoSnapshots
  \/ NoNextInFlight /\ next /\ Unobserved /\ Uncounted /\ NoScreen /\ NoView /\ NoSnapshots
  \/ \E c \in CallIds : nextFolderRead(c) /\ Unobserved /\ Uncounted /\ NoScreen /\ NoView /\ NoSnapshots
  \/ \E c \in CallIds : pushNewEntry(c) /\ Unobserved /\ Uncounted /\ NoScreen /\ NoView /\ NoSnapshots
  \/ dbStatement /\ Unobserved /\ Uncounted /\ NoScreen /\ NoView /\ NoSnapshots

ReopenSpec == Init /\ [][ReopenNext]_vars

----------------------------------------------------------------------------
(* A caller that opens folders a bounded number of times and keeps pulling *)

PullInit ==
  /\ SeqInit
  /\ Len(listing[rootA]) <= MaxPulled

PullStep ==
  \/ \E c \in CallIds : prepareEntriesDbChecked(c) /\ Observe(FALSE, NoPath) /\ Uncounted /\ NoScreen /\ NoView /\ NoSnapshots
  \/ \E c \in CallIds : prepareEntriesLocationFound(c) /\ Observe(FALSE, NoPath) /\ Uncounted /\ NoScreen /\ NoView /\ NoSnapshots
  \/ \E c \in CallIds : prepareEntriesLoaded(c) /\ Observe(FALSE, NoPath) /\ Uncounted /\ NoScreen /\ NoView /\ NoSnapshots
  \/ \E c \in CallIds : prepareEntriesRead(c) /\ Observe(FALSE, NoPath) /\ Uncounted /\ NoScreen /\ NoView /\ NoSnapshots
  \/ AllIdle /\ next /\ Observe(FALSE, NoPath) /\ Uncounted /\ NoScreen /\ NoView /\ NoSnapshots
  \/ \E c \in CallIds : nextFolderRead(c) /\ Observe(FALSE, NoPath) /\ Uncounted /\ NoScreen /\ NoView /\ NoSnapshots
  \/ \E c \in CallIds : pushNewEntry(c) /\ Observe(FALSE, NoPath) /\ Uncounted /\ NoScreen /\ NoView /\ NoSnapshots

PullNext ==
  \/ \E p \in Roots : /\ opens < MaxVisits
                      /\ AllIdle /\ prepareEntries(p) /\ Observe(TRUE, p)
                      /\ opens' = opens + 1 /\ NoView /\ NoSnapshots /\ NoScreen
  \/ PullStep

\* The caller repeats next() and the event loop completes every pending
\* filesystem and database callback.
PullSpec == PullInit /\ [][PullNext]_vars /\ WF_vars(PullStep)

----------------------------------------------------------------------------
(* The same caller on folders whose sub-folders are deep, wide or endless *)

SearchPool == { File("a", ".jpg"), Dir("trip"), Dir("empty"), Dir("locked"), Dir("album"),
                Dir("nest"), Dir("fork"), Dir("wide"), Dir("wider"), Dir("loop") }

SearchFolders ==
  {s \in UNION {[1 .. n -> SearchPool] : n \in 1 .. MaxPulled} :
     \A i, j \in DOMAIN s : s[i] = s[j] => i = j}

SearchInit ==
  /\ listing \in [Roots -> SearchFolders \cup {<< File("b", ".MP4"), Dir("empty") >>}]
  /\ listing[rootA] \in SearchFolders
  /\ listing[rootB] = << File("b", ".MP4"), Dir("empty") >>
  /\ db \in Databases
  /\ InitCache
  /\ entriesManager = << >>
  /\ snapshots = << >>
  /\ visited = << >>

SearchSpec == SearchInit /\ [][PullNext]_vars /\ WF_vars(PullStep)

----------------------------------------------------------------------------
(* DirectoryManager: the directory container *)

\* notAllowed(cardTitle, cardDestination): a card of that title exists, or
\* the card is not for the folder on display.
notAllowed(cardTitle, cardDestination) ==
  \/ \E i \in DOMAIN box.cards : box.cards[i].title = cardTitle
  \/ cardDestination # box.path

\* processEntry(content): the card is appended to the container unless it
\* is not allowed.
processEntry(content) ==
  IF notAllowed(content.title, content.destination)
    THEN box
    ELSE [box EXCEPT !.cards = Append(box.cards, content)]

FreeLoops == {l \in LoopIds : loops[l].state \in {"idle", "returned", "rejected"}}
FreeLoop == CHOOSE l \in FreeLoops : \A m \in FreeLoops : l <= m

----------------------------------------------------------------------------
(* ImageryCache, index-addressed, pulled by DirectoryManager in batches.   *)
(* The two channels prepare-directory-contents and next-content call       *)
(* prepareEntries(path) and next(index) and reply with what they return;   *)
(* request and reply are delivered in the step that sends them.            *)

\* Session objects that memory or #activePathCache refers to.
Held(mem, current) == ({mem[p] : p \in Roots} \cup {current}) \ {0}

Sweep(sess, mem, current) ==
  [i \in SessionIds |-> IF i \in Held(mem, current) THEN sess[i] ELSE NoSession]

Fresh(mem, current) ==
  CHOOSE i \in SessionIds :
    /\ i \notin Held(mem, current)
    /\ \A j \in SessionIds : j < i => j \in Held(mem, current)

batchSize == 5

\* addContent: Promise.all(batch) has resolved when no call of the loop is
\* pending; the loop returns when every index was asked for.
Settle(lps, cls) ==
  [l \in LoopIds |->
     IF /\ lps[l].state = "pulling"
        /\ lps[l].processed >= lps[l].entriesLength
        /\ \A c \in CallIds : cls[c].loop # l
       THEN [IdleLoop EXCEPT !.state = "returned"]
       ELSE lps[l]]

\* #getNextContent after await invoke('next-content', index): nothing for a
\* falsy content, the message is printed for an error, processEntry otherwise.
received(ret) == IF ret.kind = "entry" THEN processEntry(ret.entry) ELSE box

\* prepareEntries(folderPath) up to its first await.
prepareEntriesByIndex(c, l, folderPath) ==
  /\ calls' = [calls EXCEPT ![c] =
       [PrepareCall(folderPath, IF memory[folderPath] # 0 THEN "pathInDatabase"
                                                          ELSE "readFolder")
          EXCEPT !.op = "prepareEntriesByIndex", !.loop = l]]
  /\ activePath' = IF memory[folderPath] # 0 THEN activePath ELSE folderPath
  /\ lastRet' = NoRet
  /\ UNCHANGED <<memory, sessions, activePathCache>>

\* open(path) from the clearing of the container, and addContent() up to
\* its await of prepare-directory-contents.
open(path) ==
  /\ opens < MaxOpens
  /\ opens' = opens + 1
  /\ FreeLoops # {} /\ IdleCalls # {}
  /\ box' = [path |-> path, cards |-> << >>]
  /\ loops' = [loops EXCEPT ![FreeLoop] =
                 [IdleLoop EXCEPT !.state = "preparing", !.call = FreeCall,
                                  !.path = path]]
  /\ prepareEntriesByIndex(FreeCall, FreeLoop, path)
  /\ UNCHANGED <<listing, db, dbOps>>

\* prepareEntries on a path that memory has: await #pathInDatabase has
\* resolved.  #updatePathLastVisited only stamps the Location row.
prepareEntriesByIndexHit(c) ==
  /\ calls[c].op = "prepareEntriesByIndex" /\ calls[c].pc = "pathInDatabase"
  /\ LET call == calls[c]
         current == memory[call.path]
     IN  /\ activePath' = call.path
         /\ activePathCache' = current
         /\ calls' = [calls EXCEPT ![c] = IdleCall]
         /\ sessions' = Sweep(sessions, memory, current)
         /\ lastRet' = PrepareRet("ok", call.path)
         /\ loops' = Settle([loops EXCEPT ![call.loop].state = "pulling",
                                          ![call.loop].call = 0,
                                          ![call.loop].entriesLength =
                                             Len(sessions[current].okEntries)],
                            calls')
  /\ UNCHANGED <<listing, db, dbOps, memory, box>>

\* prepareEntries on a path that memory has not: await readFolder has
\* settled.
prepareEntriesByIndexRead(c) ==
  /\ calls[c].op = "prepareEntriesByIndex" /\ calls[c].pc = "readFolder"
  /\ LET call == calls[c]
         r == readFolder(call.path)
         allEntries == [i \in DOMAIN r.entries |-> ImageryDirent(i - 1, r.entries[i])]
         id == Fresh(memory, activePathCache)
         mem == [memory EXCEPT ![call.path] = id]
     IN  /\ calls' = [calls EXCEPT ![c] = IdleCall]
         /\ IF r.threw
              THEN /\ lastRet' = PrepareRet("throw", call.path)
                   /\ loops' = [loops EXCEPT ![call.loop] =
                                  [IdleLoop EXCEPT !.state = "rejected"]]
                   /\ UNCHANGED <<memory, sessions, activePathCache>>
              ELSE /\ memory' = mem
                   /\ activePathCache' = id
                   /\ sessions' = Sweep([sessions EXCEPT ![id] =
                                           ImageryEntriesCache(call.path, allEntries, << >>)],
                                        mem, id)
                   /\ lastRet' = PrepareRet("ok", call.path)
                   /\ loops' = Settle([loops EXCEPT ![call.loop].state = "pulling",
                                                    ![call.loop].call = 0,
                                                    ![call.loop].entriesLength =
                                                       Len(allEntries)],
                                      calls')
  /\ UNCHANGED <<listing, db, dbOps, activePath, box>>

\* next(index) up to its first await.
nextByIndex(c, l, index) ==
  LET started == [IdleCall EXCEPT !.op = "nextByIndex", !.path = activePath, !.loop = l]
      thrown == Ret("next", "throw", NoEntry, activePath, FALSE, FALSE, 0)
  IN  IF activePath = NoPath \/ activePathCache = 0
        THEN \* no active path, or okEntries of {} is undefined
             lastRet' = thrown /\ UNCHANGED calls
      ELSE LET session == sessions[activePathCache] IN
        IF index < Len(session.okEntries)
          THEN \* entryExist
               /\ lastRet' = Ret("next", "entry", session.okEntries[index + 1],
                                 activePath, FALSE, FALSE, activePathCache)
               /\ UNCHANGED calls
        ELSE IF index >= Len(session.allEntries)
          THEN \* Cannot find entry to process
               lastRet' = thrown /\ UNCHANGED calls
        ELSE LET currentEntry == session.allEntries[index + 1]
                 entryPath == join(activePath, currentEntry.name)
             IN  IF currentEntry.isFile /\ ~ currentEntry.isCompatibleFile
                   THEN /\ lastRet' = Ret("next", "null", NoEntry, activePath, FALSE, FALSE,
                                          activePathCache)
                        /\ UNCHANGED calls
                 ELSE IF currentEntry.isFile
                   THEN /\ calls' = [calls EXCEPT ![c] =
                             [started EXCEPT !.pc = "stat", !.title = currentEntry.name,
                                !.entry = ImageryEntry(index, currentEntry.name, activePath,
                                            TRUE, entryPath, "", entryPath, session.owner)]]
                        /\ lastRet' = NoRet
                 ELSE IF currentEntry.isDirectory
                   THEN /\ calls' = [calls EXCEPT ![c] =
                             [started EXCEPT !.pc = "readFolder", !.title = currentEntry.name,
                                !.currentFolderPath = entryPath,
                                !.entry = [NoEntry EXCEPT !.index = index,
                                                          !.src = session.owner]]]
                        /\ lastRet' = NoRet
                 ELSE /\ lastRet' = Ret("next", "null", NoEntry, activePath, FALSE, FALSE,
                                        activePathCache)
                      /\ UNCHANGED calls

\* addContent: #getNextContent(processed) is started for the next index of
\* the batch, up to its await of next-content.
getNextContent(l) ==
  /\ loops[l].state = "pulling"
  /\ loops[l].processed < loops[l].entriesLength
  /\ loops[l].processed % batchSize # 0 \/ \A c \in CallIds : calls[c].loop # l
  /\ IdleCalls # {}
  /\ nextByIndex(FreeCall, l, loops[l].processed)
  /\ box' = received(lastRet')
  /\ loops' = Settle([loops EXCEPT ![l].processed = loops[l].processed + 1], calls')
  /\ UNCHANGED <<listing, db, dbOps, activePath, memory, sessions, activePathCache>>

\* One turn of the breadth-first loop of next(index): await readFolder(
\* currentFolderPath) has settled.
nextByIndexFolderRead(c) ==
  /\ calls[c].op = "nextByIndex" /\ calls[c].pc = "readFolder"
  /\ LET call == calls[c]
         r == readFolder(call.currentFolderPath)
         subEntries == r.entries
         media == {i \in DOMAIN subEntries :
                     subEntries[i].type = "file" /\ isMediaFile(subEntries[i].name)}
         hasMedia == media # {}
         firstValidParent == IF call.foldersTraversed > 0 /\ call.firstValidParent = NoPath
                               THEN dirname(call.currentFolderPath)
                               ELSE call.firstValidParent
         found == subEntries[CHOOSE i \in media : \A j \in media : i <= j]
         thumbnailPath == join(call.currentFolderPath, found.name)
         subFolders == SelectSeq(subEntries, LAMBDA e : e.type = "dir")
         queue == call.queue \o [i \in DOMAIN subFolders |->
                                   join(call.currentFolderPath, subFolders[i].name)]
         foldersTraversed == call.foldersTraversed + 1
     IN  IF r.threw
           THEN /\ calls' = [calls EXCEPT ![c] = IdleCall]
                /\ lastRet' = NextRet("throw", NoEntry, c, FALSE)
         ELSE IF hasMedia
           THEN /\ calls' = [calls EXCEPT ![c] =
                     [call EXCEPT !.pc = "stat", !.firstValidParent = firstValidParent,
                        !.entry = ImageryEntry(call.entry.index, call.title, activePath, FALSE,
                                    IF firstValidParent # NoPath THEN firstValidParent
                                                                 ELSE call.currentFolderPath,
                                    "", thumbnailPath, call.entry.src)]]
                /\ lastRet' = NoRet
         ELSE IF Len(queue) > 0 /\ foldersTraversed < 10
           THEN /\ calls' = [calls EXCEPT ![c] =
                     [call EXCEPT !.currentFolderPath = Head(queue), !.queue = Tail(queue),
                                  !.foldersTraversed = foldersTraversed]]
                /\ lastRet' = NoRet
         ELSE /\ calls' = [calls EXCEPT ![c] = IdleCall]
              /\ lastRet' = NextRet("null", NoEntry, c, FALSE)
  /\ loops' = Settle(loops, calls')
  /\ UNCHANGED <<listing, db, dbOps, activePath, memory, sessions, activePathCache, box>>

\* this.#activePathCache.okEntries after the entry was stored: replaced in
\* place when findIndex finds it, appended otherwise.
storeEntryByIndex(session, entry) ==
  LET indexToReplace == findIndex(session.okEntries, entry.title)
  IN  [session EXCEPT
         !.okEntries = IF indexToReplace > -1
                         THEN [session.okEntries EXCEPT ![indexToReplace + 1] = entry]
                         ELSE Append(session.okEntries, entry)]

\* #pushNewEntry after await this.#populateMetadata(path): the entry goes
\* into the session #activePathCache refers to now, and is returned.
pushNewEntryByIndex(c) ==
  /\ calls[c].op = "nextByIndex" /\ calls[c].pc = "stat"
  /\ LET entry == populateMetadata(calls[c].entry)
     IN  /\ calls' = [calls EXCEPT ![c] = IdleCall]
         /\ IF activePathCache = 0
              THEN /\ lastRet' = NextRet("throw", NoEntry, c, FALSE)
                   /\ UNCHANGED sessions
              ELSE /\ sessions' = [sessions EXCEPT ![activePathCache] =
                                     storeEntryByIndex(@, entry)]
                   /\ lastRet' = Ret("next", "entry", entry, calls[c].path, FALSE, TRUE,
                                     activePathCache)
  /\ box' = received(lastRet')
  /\ loops' = Settle(loops, calls')
  /\ UNCHANGED <<listing, db, dbOps, activePath, memory, activePathCache>>

Init16 ==
  /\ listing \in {[p \in Roots |-> IF p = rootA THEN f
                                   ELSE << File("b", ".MP4"), Dir("empty") >>] :
                    f \in { << File("a", ".jpg"), Dir("trip"), File("notes", ".txt") >>,
                            << File("notes", ".txt"), File("a", ".jpg") >> }}
  /\ db = [p \in Roots |-> NoLocation]
  /\ InitCache
  /\ entriesManager = << >>
  /\ snapshots = << >>
  /\ visited = << >>

Next16 ==
  \/ \E p \in Roots : open(p) /\ Unobserved /\ NoSnapshots /\ NoScreen
  \/ \E c \in CallIds : prepareEntriesByIndexHit(c) /\ Unobserved /\ Uncounted /\ NoScreen /\ NoSnapshots
  \/ \E c \in CallIds : prepareEntriesByIndexRead(c) /\ Unobserved /\ Uncounted /\ NoScreen /\ NoSnapshots
  \/ \E l \in LoopIds : getNextContent(l) /\ Unobserved /\ Uncounted /\ NoScreen /\ NoSnapshots
  \/ \E c \in CallIds : nextByIndexFolderRead(c) /\ Unobserved /\ Uncounted /\ NoScreen /\ NoSnapshots
  \/ \E c \in CallIds : pushNewEntryByIndex(c) /\ Unobserved /\ Uncounted /\ NoScreen /\ NoSnapshots

Spec16 == Init16 /\ [][Next16]_vars

----------------------------------------------------------------------------
(* DirectoryManager that pulls one entry at a time: addContent() awaits    *)
(* next-content in a loop.  The handlers of prepare-directory-contents and *)
(* next-content call prepareEntries(path) and next() of the cursor-        *)
(* addressed ImageryCache; request and reply are delivered in the step     *)
(* that sends them.                                                        *)

\* processEntry(content) of this DirectoryManager.  The sentinel string has
\* no destination, so it is not for this folder; a card that is allowed
\* reaches the read of nextIndex, which no scope declares, and the promise
\* rejects before the card is inserted.
processEntryOneByOne(ret) ==
  IF ret.kind = "done" THEN "return"
  ELSE IF notAllowed(ret.entry.title, ret.entry.destination) THEN "return"
  ELSE "ReferenceError"

\* addContent() after the reply it awaited: it goes on to next-content
\* after prepare-directory-contents, returns on a falsy content, and
\* otherwise awaits processEntry(content) and loops.
resumed(loop, ret) ==
  IF ret.op = "prepareEntries"
    THEN [loop EXCEPT !.call = 0,
                      !.state = IF ret.kind = "ok" THEN "ready" ELSE "rejected"]
    ELSE [loop EXCEPT !.call = 0, !.last = ret.kind,
                      !.state = IF ret.kind = "throw" THEN "rejected"
                                ELSE IF ret.kind = "null" THEN "returned"
                                ELSE IF processEntryOneByOne(ret) = "return" THEN "ready"
                                ELSE "rejected"]

\* The main process completes a step of call c: the loop that awaits c
\* resumes when the step settles the call.
Resume(c) ==
  /\ loops' = [l \in LoopIds |->
                 IF loops[l].call = c /\ lastRet'.op # "none"
                   THEN resumed(loops[l], lastRet') ELSE loops[l]]
  /\ UNCHANGED <<activePathCache, box>>

\* addContent() up to its first await, with the handler of
\* prepare-directory-contents up to the first await of prepareEntries.
addContentOneByOne(l, path) ==
  IF ~ PathExists(path)
    THEN \* Folder path does not exist
         /\ loops' = [loops EXCEPT ![l] = [IdleLoop EXCEPT !.state = "rejected"]]
         /\ lastRet' = PrepareRet("throw", path)
         /\ UNCHANGED <<listing, db, dbOps, activePath, memory, sessions, calls>>
    ELSE /\ prepareEntries(path)
         /\ loops' = [loops EXCEPT ![l] =
                        IF lastRet'.op = "none"
                          THEN [IdleLoop EXCEPT !.state = "preparing", !.call = FreeCall]
                          ELSE resumed(IdleLoop, lastRet')]

\* open(path)
openOneByOne(path) ==
  /\ FreeLoops # {}
  /\ box' = [path |-> path, cards |-> << >>]
  /\ addContentOneByOne(FreeLoop, path)
  /\ UNCHANGED activePathCache

\* addContent(): the loop invokes next-content.
nextContent(l) ==
  /\ loops[l].state = "ready"
  /\ next
  /\ loops' = [loops EXCEPT ![l] =
                 IF lastRet'.op = "none"
                   THEN [loops[l] EXCEPT !.state = "waiting", !.call = FreeCall]
                   ELSE resumed(loops[l], lastRet')]
  /\ UNCHANGED <<activePathCache, box>>

UiInit ==
  /\ listing \in {[p \in Roots |-> IF p = rootA THEN f
                                   ELSE << File("b", ".MP4"), Dir("empty") >>] :
                    f \in { << File("a", ".jpg"), Dir("trip"), File("notes", ".txt") >>,
                            << File("notes", ".txt"), File("a", ".jpg") >>,
                            << >> }}
  /\ db \in Databases
  /\ InitCache
  /\ entriesManager = << >>
  /\ snapshots = << >>
  /\ visited = << >>

UiNext ==
  \/ \E p \in Roots : openOneByOne(p) /\ Unobserved /\ Uncounted /\ NoScreen /\ NoSnapshots
  \/ \E c \in CallIds : prepareEntriesDbChecked(c) /\ Resume(c) /\ Unobserved /\ Uncounted /\ NoScreen /\ NoSnapshots
  \/ \E c \in CallIds : prepareEntriesLocationFound(c) /\ Resume(c) /\ Unobserved /\ Uncounted /\ NoScreen /\ NoSnapshots
  \/ \E c \in CallIds : prepareEntriesLoaded(c) /\ Resume(c) /\ Unobserved /\ Uncounted /\ NoScreen /\ NoSnapshots
  \/ \E c \in CallIds : prepareEntriesRead(c) /\ Resume(c) /\ Unobserved /\ Uncounted /\ NoScreen /\ NoSnapshots
  \/ \E l \in LoopIds : nextContent(l) /\ Unobserved /\ Uncounted /\ NoScreen /\ NoSnapshots
  \/ \E c \in CallIds : nextFolderRead(c) /\ Resume(c) /\ Unobserved /\ Uncounted /\ NoScreen /\ NoSnapshots
  \/ \E c \in CallIds : pushNewEntry(c) /\ Resume(c) /\ Unobserved /\ Uncounted /\ NoScreen /\ NoSnapshots
  \/ dbStatement /\ Unobserved /\ Uncounted /\ NoScreen /\ NoView /\ NoSnapshots

UiSpec == UiInit /\ [][UiNext]_vars

----------------------------------------------------------------------------
(* ImageryCache that keeps a gzip snapshot file per folder: the methods of  *)
(* the class as they are written.  A folder path is a sequence of           *)
(* characters, here a folder name relative to the working directory.        *)

MaxPathLen == 2    \* characters of a folder path

Chars == {"a", " ", "_"}

FolderNames == UNION {[1 .. n -> Chars] : n \in 1 .. MaxPathLen}

\* name.replace(' ', '_'): a string pattern replaces the first occurrence.
replace(name) ==
  LET blanks == {i \in DOMAIN name : name[i] = " "}
  IN  IF blanks = {} THEN name
      ELSE [name EXCEPT ![CHOOSE i \in blanks : \A j \in blanks : i <= j] = "_"]

\* The file name below temporaryDirectory.
cachedFileDestination(name) == << "imagery-" >> \o replace(name) \o << ".json.gz" >>

SnapshotFiles == {cachedFileDestination(name) : name \in FolderNames}

\* A file of the temporary directory.  complete is false while
\* promises.writeFile has opened (and thereby emptied) the file and has not
\* written all of the data yet.
NoFile == [exists |-> FALSE, complete |-> FALSE, data |-> << >>, savedFor |-> NoPath,
           mtime |-> 0]

\* ImageryEntriesCache of this class.  savedFor is not a field of the
\* program's object: it is the path whose #save wrote the snapshot the
\* object was parsed from.
NoEntries == [exists |-> FALSE, currentIndex |-> 0, processedEntries |-> << >>,
              unprocessedEntries |-> << >>, savedFor |-> NoPath]

\* ImageryDirent of this class: no index.
ImageryDirentGz(entry) ==
  [name |-> entry.name,
   isFile |-> entry.type = "file",
   isCompatibleFile |-> entry.type = "file" /\ isMediaFile(entry.name),
   isDirectory |-> entry.type = "dir"]

\* JSON.stringify(entries): cachedThumbnail holds a promise, which is
\* written as {}.
stringify(entries) ==
  [currentIndex |-> entries.currentIndex,
   processedEntries |-> [i \in DOMAIN entries.processedEntries |->
                           [entries.processedEntries[i] EXCEPT !.cachedThumbnail = << "{}" >>]],
   unprocessedEntries |-> entries.unprocessedEntries]

\* JSON.parse(zlib.gunzipSync(readFileSync(savedPath)))
parse(file) ==
  [exists |-> TRUE, currentIndex |-> file.data.currentIndex,
   processedEntries |-> file.data.processedEntries,
   unprocessedEntries |-> file.data.unprocessedEntries,
   savedFor |-> file.savedFor]

\* #save(path, entries) up to its await.  When entries is not passed
\* (NoEntries here), JSON.stringify(undefined) is undefined and
\* zlib.gzipSync(undefined) throws, which the catch logs; otherwise
\* promises.writeFile is called with the session as it is now.
save(path, entries) ==
  IF ~ entries.exists THEN fsOps
  ELSE fsOps \cup {[kind |-> "writeFile", file |-> cachedFileDestination(path),
                     data |-> stringify(entries), savedFor |-> path]}

\* #pathInCache(path): existsSync(cachedFileDestination(path))
pathInCache(path) == snapshots[cachedFileDestination(path)].exists

\* zlib.gunzipSync and JSON.parse throw on incomplete data.
unreadable(file) == ~ file.complete

\* #loadCachedEntry(path)
loadCachedEntry(path) == parse(snapshots[cachedFileDestination(path)])

\* #deleteCachedEntry(path) up to its await of promises.unlink.
deleteCachedEntry(path) ==
  fsOps \cup {[kind |-> "unlink", file |-> cachedFileDestination(path),
                data |-> << >>, savedFor |-> NoPath]}

GzRet(op, kind, path) == Ret(op, kind, NoEntry, path, FALSE, FALSE, 0)

\* prepareEntries(folderPath, cache) up to its await of readFolder, or to
\* its return.
prepareEntriesGz(folderPath, cache) ==
  /\ IdleCalls # {}
  /\ LET switching == activePath # NoPath /\ activePath # folderPath
         manager == IF switching /\ ~ cacheActivePath
                      THEN [entriesManager EXCEPT ![activePath] = NoEntries]
                      ELSE entriesManager
         ops == IF ~ switching THEN fsOps
                ELSE IF cacheActivePath THEN save(activePath, NoEntries)
                ELSE IF pathInCache(activePath) THEN deleteCachedEntry(activePath)
                ELSE fsOps
         failed == /\ ~ manager[folderPath].exists
                   /\ pathInCache(folderPath)
                   /\ unreadable(snapshots[cachedFileDestination(folderPath)])
     IN  /\ fsOps' = ops
         /\ activePath' = IF failed THEN activePath ELSE folderPath
         /\ cacheActivePath' = IF failed THEN cacheActivePath ELSE cache
         /\ remembered' = IF cache THEN remembered \cup {folderPath} ELSE remembered
         /\ visited' = [visited EXCEPT ![folderPath] = now]
         /\ IF manager[folderPath].exists
              THEN /\ entriesManager' = [manager EXCEPT ![folderPath].currentIndex = 0]
                   /\ lastRet' = GzRet("prepareEntries", "ok", folderPath)
                   /\ UNCHANGED calls
            ELSE IF failed
              THEN \* #loadCachedEntry throws and nothing catches it
                   /\ entriesManager' = manager
                   /\ lastRet' = GzRet("prepareEntries", "throw", folderPath)
                   /\ UNCHANGED calls
            ELSE IF pathInCache(folderPath)
              THEN /\ entriesManager' = [manager EXCEPT ![folderPath] =
                                           [loadCachedEntry(folderPath) EXCEPT !.currentIndex = 0]]
                   /\ lastRet' = GzRet("prepareEntries", "ok", folderPath)
                   /\ UNCHANGED calls
            ELSE /\ entriesManager' = manager
                 /\ calls' = [calls EXCEPT ![FreeCall] =
                                [PrepareCall(folderPath, "readFolder")
                                   EXCEPT !.op = "prepareEntriesGz"]]
                 /\ lastRet' = NoRet
  /\ UNCHANGED <<listing, snapshots>>

\* prepareEntries: await readFolder(folderPath) has resolved.
prepareEntriesGzRead(c) ==
  /\ calls[c].op = "prepareEntriesGz" /\ calls[c].pc = "readFolder"
  /\ LET entries == listing[calls[c].path]
     IN  entriesManager' = [entriesManager EXCEPT ![calls[c].path] =
           [NoEntries EXCEPT !.exists = TRUE,
              !.unprocessedEntries = [i \in DOMAIN entries |-> ImageryDirentGz(entries[i])]]]
  /\ calls' = [calls EXCEPT ![c] = IdleCall]
  /\ lastRet' = GzRet("prepareEntries", "ok", calls[c].path)
  /\ UNCHANGED <<listing, activePath, cacheActivePath, snapshots, fsOps, remembered, visited>>

\* next() up to its first await, or to its return.  The calls of
\* #pushNewEntry evaluate the argument `pathCache = pathCache` first, an
\* assignment to a const binding, so they throw a TypeError and no entry is
\* ever pushed.
nextGz ==
  /\ IdleCalls # {}
  /\ LET pathCache == IF activePath = NoPath THEN NoEntries ELSE entriesManager[activePath]
         currentEntry == pathCache.unprocessedEntries[pathCache.currentIndex + 1]
     IN  IF activePath = NoPath \/ ~ pathCache.exists
           THEN /\ lastRet' = GzRet("next", "null", activePath)
                /\ UNCHANGED <<entriesManager, calls, fsOps>>
         ELSE IF Len(pathCache.processedEntries) >= Len(pathCache.unprocessedEntries)
           THEN /\ fsOps' = save(activePath, pathCache)
                /\ lastRet' = GzRet("next", "null", activePath)
                /\ UNCHANGED <<entriesManager, calls>>
         ELSE IF Len(pathCache.processedEntries) >= pathCache.currentIndex
           THEN /\ entriesManager' = [entriesManager EXCEPT ![activePath].currentIndex = @ + 1]
                /\ lastRet' =
                     IF pathCache.currentIndex + 2 \in DOMAIN pathCache.processedEntries
                       THEN Ret("next", "entry",
                                pathCache.processedEntries[pathCache.currentIndex + 2],
                                activePath, FALSE, TRUE, 0)
                       ELSE GzRet("next", "undefined", activePath)
                /\ UNCHANGED <<calls, fsOps>>
         ELSE IF pathCache.currentIndex + 1 \notin DOMAIN pathCache.unprocessedEntries
           THEN /\ lastRet' = GzRet("next", "null", activePath)
                /\ UNCHANGED <<entriesManager, calls, fsOps>>
         ELSE IF currentEntry.isFile
           THEN /\ lastRet' = GzRet("next", IF currentEntry.isCompatibleFile
                                              THEN "throw" ELSE "null", activePath)
                /\ UNCHANGED <<entriesManager, calls, fsOps>>
         ELSE IF currentEntry.isDirectory
           THEN /\ calls' = [calls EXCEPT ![FreeCall] =
                     [IdleCall EXCEPT !.op = "nextGz", !.pc = "readFolder",
                                      !.path = activePath, !.title = currentEntry.name,
                                      !.currentFolderPath = << currentEntry.name >>]]
                /\ lastRet' = NoRet
                /\ UNCHANGED <<entriesManager, fsOps>>
         ELSE /\ lastRet' = GzRet("next", "null", activePath)
              /\ UNCHANGED <<entriesManager, calls, fsOps>>
  /\ visited' = IF activePath \in DOMAIN visited
                  THEN [visited EXCEPT ![activePath] = now] ELSE visited
  /\ UNCHANGED <<listing, activePath, cacheActivePath, snapshots, remembered>>

\* readFolder of a folder below the opened one, by its path relative to it.
readSubFolder(rel) ==
  IF IsLocked(rel) THEN [threw |-> FALSE, entries |-> << >>]
  ELSE IF IsSubFolder(rel) THEN [threw |-> FALSE, entries |-> SubTree(rel)]
  ELSE [threw |-> TRUE, entries |-> << >>]

\* One turn of the breadth-first loop of next(): await readFolder(
\* currentFolderPath) has settled.
nextGzFolderRead(c) ==
  /\ calls[c].op = "nextGz" /\ calls[c].pc = "readFolder"
  /\ LET call == calls[c]
         r == readSubFolder(call.currentFolderPath)
         subFolders == SelectSeq(r.entries, LAMBDA e : e.type = "dir")
         queue == push(call.queue, [i \in DOMAIN subFolders |->
                                      join(call.currentFolderPath, subFolders[i].name)])
         foldersTraversed == call.foldersTraversed + 1
     IN  IF r.threw \/ mediaOf(r.entries) # {}
           THEN /\ calls' = [calls EXCEPT ![c] = IdleCall]
                /\ lastRet' = GzRet("next", "throw", call.path)
         ELSE IF keepSearching(queue, foldersTraversed)
           THEN /\ calls' = [calls EXCEPT ![c] =
                     [call EXCEPT !.currentFolderPath = Head(queue), !.queue = Tail(queue),
                                  !.foldersTraversed = foldersTraversed]]
                /\ lastRet' = NoRet
         ELSE /\ calls' = [calls EXCEPT ![c] = IdleCall]
              /\ lastRet' = GzRet("next", "null", call.path)
  /\ UNCHANGED <<listing, activePath, entriesManager, cacheActivePath, snapshots, fsOps,
                 remembered, visited>>

\* promises.writeFile or promises.unlink proceeds.  A write first opens the
\* file, which leaves it existing with incomplete content, and settles when
\* the data is written.  Nobody awaits or catches the unlink of a file that
\* is not there.
fsSettle ==
  \E op \in fsOps, step \in {"open", "settle"} :
    /\ op.kind \in {"writeFile", "unlink"}
    /\ step = "open" =>
          /\ op.kind = "writeFile"
          /\ ~ (snapshots[op.file].exists /\ unreadable(snapshots[op.file]))
    /\ fsOps' = IF step = "open" THEN fsOps ELSE fsOps \ {op}
    /\ snapshots' = [snapshots EXCEPT ![op.file] =
                       IF step = "open"
                         THEN [exists |-> TRUE, complete |-> FALSE, data |-> << >>,
                               savedFor |-> op.savedFor, mtime |-> now]
                       ELSE IF op.kind = "writeFile"
                         THEN [exists |-> TRUE, complete |-> TRUE, data |-> op.data,
                               savedFor |-> op.savedFor, mtime |-> now]
                       ELSE NoFile]
    /\ lastRet' = NoRet
    /\ UNCHANGED <<listing, activePath, entriesManager, cacheActivePath, calls, remembered,
                   visited>>

\* This class uses no database and has no view.
NoDatabase == UNCHANGED <<db, dbOps, memory, sessions, activePathCache, box, loops>>

\* Only clearOldCache reads the clock, and no time passes within one run of
\* a handler.
NoClock == UNCHANGED now

GzFolders == { << >>, << File("notes", ".txt"), File("a", ".jpg") >>,
               << Dir("empty"), Dir("trip") >> }

GzInit ==
  /\ \E p, q \in FolderNames :
       /\ p # q
       /\ listing \in [{p, q} -> GzFolders]
  /\ entriesManager = [p \in DOMAIN listing |-> NoEntries]
  /\ snapshots = [f \in SnapshotFiles |-> NoFile]
  /\ visited = [p \in DOMAIN listing |-> 0]
  /\ db = [p \in Roots |-> NoLocation]
  /\ InitCache

\* The caller awaits every call; the writes and unlinks that the class does
\* not await settle at any time.
GzNext ==
  \/ \E p \in DOMAIN listing, cache \in BOOLEAN :
       AllIdle /\ prepareEntriesGz(p, cache) /\ NoDatabase /\ Unobserved /\ Uncounted /\ NoScreen /\ NoClock
  \/ \E c \in CallIds : prepareEntriesGzRead(c) /\ NoDatabase /\ Unobserved /\ Uncounted /\ NoScreen /\ NoClock
  \/ AllIdle /\ nextGz /\ NoDatabase /\ Unobserved /\ Uncounted /\ NoScreen /\ NoClock
  \/ \E c \in CallIds : nextGzFolderRead(c) /\ NoDatabase /\ Unobserved /\ Uncounted /\ NoScreen /\ NoClock
  \/ fsSettle /\ UNCHANGED calls /\ NoDatabase /\ Unobserved /\ Uncounted /\ NoScreen /\ NoClock

GzSpec == GzInit /\ [][GzNext]_vars

\* Callers that do not wait for an earlier prepareEntries before they open
\* another folder, and never ask for a folder to be cached.
OverlapNext ==
  \/ \E p \in DOMAIN listing :
       prepareEntriesGz(p, FALSE) /\ NoDatabase /\ Unobserved /\ Uncounted /\ NoScreen /\ NoClock
  \/ \E c \in CallIds : prepareEntriesGzRead(c) /\ NoDatabase /\ Unobserved /\ Uncounted /\ NoScreen /\ NoClock
  \/ AllIdle /\ nextGz /\ NoDatabase /\ Unobserved /\ Uncounted /\ NoScreen /\ NoClock
  \/ \E c \in CallIds : nextGzFolderRead(c) /\ NoDatabase /\ Unobserved /\ Uncounted /\ NoScreen /\ NoClock
  \/ fsSettle /\ UNCHANGED calls /\ NoDatabase /\ Unobserved /\ Uncounted /\ NoScreen /\ NoClock

OverlapSpec == GzInit /\ [][OverlapNext]_vars

----------------------------------------------------------------------------
(* ImageryCache with snapshot files: clearOldCache *)

MaxTicks == 3        \* how often the clock advances
DaysPerTick == 15    \* days that pass between two observations of the clock
DefaultMaxAgeInDays == 30

\* (Date.now() - status.mtimeMs) > maxAgeInDays * 86400000
reachedMaxAge(mtime, maxAgeInDays) == (now - mtime) > maxAgeInDays

\* clearOldCache(): promises.readdir(temporaryDirectory) has resolved, and
\* promises.stat is called for every file named imagery-*.json.gz.
clearOldCache ==
  /\ fsOps' = fsOps \cup {[kind |-> "stat", file |-> f, data |-> << >>, savedFor |-> NoPath] :
                            f \in {g \in DOMAIN snapshots : snapshots[g].exists}}
  /\ lastRet' = NoRet
  /\ UNCHANGED <<listing, activePath, entriesManager, cacheActivePath, snapshots, calls,
                 remembered, visited>>

\* promises.stat(filePath) of clearOldCache has settled: a file that has
\* reached the maximum age is unlinked.  Nobody handles the rejection for a
\* file that is gone.
clearOldCacheStat ==
  \E op \in fsOps :
    /\ op.kind = "stat"
    /\ fsOps' = IF /\ snapshots[op.file].exists
                   /\ reachedMaxAge(snapshots[op.file].mtime, DefaultMaxAgeInDays)
                  THEN (fsOps \ {op}) \cup {[op EXCEPT !.kind = "unlink", !.data = << "expired" >>]}
                  ELSE fsOps \ {op}
    /\ lastRet' = NoRet
    /\ UNCHANGED <<listing, activePath, entriesManager, cacheActivePath, snapshots, calls,
                   remembered, visited>>

\* Time passes.
tick ==
  /\ now < MaxTicks * DaysPerTick
  /\ now' = now + DaysPerTick
  /\ lastRet' = NoRet
  /\ UNCHANGED <<listing, activePath, entriesManager, cacheActivePath, snapshots, fsOps,
                 calls, remembered, visited>>

\* Two folders whose snapshot files have different names.
SweepInit ==
  /\ listing \in [{<< "a" >>, << "_" >>} -> GzFolders]
  /\ listing[<< "_" >>] = << >>
  /\ entriesManager = [p \in DOMAIN listing |-> NoEntries]
  /\ snapshots = [f \in SnapshotFiles |-> NoFile]
  /\ visited = [p \in DOMAIN listing |-> 0]
  /\ db = [p \in Roots |-> NoLocation]
  /\ InitCache

\* The caller awaits every call, opens folders with the default cache =
\* false, and goes on when the file operations of the call before have
\* settled.
Settled == AllIdle /\ fsOps = {}

SweepNext ==
  \/ \E p \in DOMAIN listing :
       Settled /\ prepareEntriesGz(p, FALSE) /\ NoDatabase /\ Unobserved /\ Uncounted /\ NoScreen /\ NoClock
  \/ \E c \in CallIds : prepareEntriesGzRead(c) /\ NoDatabase /\ Unobserved /\ Uncounted /\ NoScreen /\ NoClock
  \/ Settled /\ nextGz /\ NoDatabase /\ Unobserved /\ Uncounted /\ NoScreen /\ NoClock
  \/ \E c \in CallIds : nextGzFolderRead(c) /\ NoDatabase /\ Unobserved /\ Uncounted /\ NoScreen /\ NoClock
  \/ fsSettle /\ UNCHANGED calls /\ NoDatabase /\ Unobserved /\ Uncounted /\ NoScreen /\ NoClock
  \/ Settled /\ clearOldCache /\ NoDatabase /\ Unobserved /\ Uncounted /\ NoScreen /\ NoClock
  \/ clearOldCacheStat /\ UNCHANGED calls /\ NoDatabase /\ Unobserved /\ Uncounted /\ NoScreen /\ NoClock
  \/ Settled /\ tick /\ NoDatabase /\ Unobserved /\ Uncounted /\ NoScreen

SweepSpec == SweepInit /\ [][SweepNext]_vars

----------------------------------------------------------------------------
(* What the filesystem holds, independently of the resolution code *)

TreeDepth == 3

RECURSIVE MediaBelow(_, _)
MediaBelow(path, depth) ==
  LET r == readdir(path)
  IN  /\ r.status = "ok"
      /\ \/ \E i \in DOMAIN r.entries :
              r.entries[i].type = "file" /\ isMediaFile(r.entries[i].name)
         \/ /\ depth > 0
            /\ \E i \in DOMAIN r.entries :
                 r.entries[i].type = "dir" /\ MediaBelow(join(path, r.entries[i].name), depth - 1)

\* The raw entry has a display record: a compatible file, or a folder from
\* which media is reachable.
Resolvable(folderPath, raw) ==
  \/ raw.isCompatibleFile
  \/ raw.isDirectory /\ MediaBelow(join(folderPath, raw.name), TreeDepth)

NoSubFolders(folderPath) ==
  \A i \in DOMAIN listing[folderPath] : listing[folderPath][i].type # "dir"

MediaFiles(folderPath) ==
  {i \in DOMAIN listing[folderPath] :
     listing[folderPath][i].type = "file" /\ isMediaFile(listing[folderPath][i].name)}

StrictlyIncreasingIndex(entries) ==
  \A i, j \in DOMAIN entries : i < j => entries[i].index < entries[j].index

ReturnedDone == lastRet.op = "next" /\ lastRet.kind = "done"

MaxFoldersTraversed == 10

\* The sub-folders of a folder, in enumeration order.
SubFolderPaths(path) ==
  LET r == readdir(path)
      dirs == SelectSeq(r.entries, LAMBDA e : e.type = "dir")
  IN  IF r.status = "ok" THEN [i \in DOMAIN dirs |-> join(path, dirs[i].name)] ELSE << >>

RECURSIVE NextLevel(_)
NextLevel(level) ==
  IF level = << >> THEN << >>
  ELSE SubFolderPaths(Head(level)) \o NextLevel(Tail(level))

\* The folders below and including those of level, level by level.
RECURSIVE LevelOrder(_, _)
LevelOrder(level, levels) ==
  IF level = << >> \/ levels = 0 THEN << >>
  ELSE level \o LevelOrder(NextLevel(level), levels - 1)

MediaIn(path) ==
  LET r == readdir(path)
  IN  IF r.status = "ok"
        THEN {i \in DOMAIN r.entries :
                r.entries[i].type = "file" /\ isMediaFile(r.entries[i].name)}
        ELSE {}

\* The first folder in breadth-first order, among the first
\* MaxFoldersTraversed, that holds a compatible media file; NoPath if none.
FirstMediaFolder(subFolder) ==
  LET order == LevelOrder(<< subFolder >>, MaxFoldersTraversed)
      hits == {i \in DOMAIN order : i <= MaxFoldersTraversed /\ MediaIn(order[i]) # {}}
  IN  IF hits = {} THEN NoPath ELSE order[CHOOSE i \in hits : \A j \in hits : i <= j]

FirstMediaFile(folder) ==
  LET first == CHOOSE i \in MediaIn(folder) : \A j \in MediaIn(folder) : i <= j
  IN  join(folder, readdir(folder).entries[first].name)

\* The resolved folder entries of the sessions enumerated from the filesystem.
FolderEntries ==
  {e \in UNION {{sessions[i].okEntries[k] : k \in DOMAIN sessions[i].okEntries} :
                   i \in SessionIds} : ~ e.isMedia}

SubFolderOf(e) == join(e.src, e.title)

----------------------------------------------------------------------------
(* DirectoryScreen that renders a folder in one piece: loadContents, the   *)
(* directory-innerHTML channel and the render cache                        *)

\* Nothing of the main-process classes is involved.
NoImageryCache ==
  /\ UNCHANGED <<listing, db, dbOps, activePath, memory, sessions, calls>>
  /\ Unobserved /\ Uncounted /\ NoView /\ NoSnapshots

Cell(name, thumbnailType) == [name |-> name, thumbnailType |-> thumbnailType]

\* processEntry(folderEntry) of createFolderCells: the cell of a compatible
\* media file, the cell of a folder below which the search finds media (its
\* thumbnail type is always video), nothing otherwise.
processFolderEntry(folderPath, folderEntry) ==
  IF folderEntry.type = "file" /\ isMediaFile(folderEntry.name)
    THEN << Cell(folderEntry.name, thumbnailTypeOf(join(folderPath, folderEntry.name))) >>
  ELSE IF folderEntry.type # "dir"
    THEN << >>
  ELSE IF FirstMediaFolder(join(folderPath, folderEntry.name)) # NoPath
    THEN << Cell(folderEntry.name, FileGroupVIDEO) >>
  ELSE << >>

RECURSIVE htmlContent(_, _)
htmlContent(folderPath, entries) ==
  IF entries = << >> THEN << >>
  ELSE processFolderEntry(folderPath, Head(entries)) \o htmlContent(folderPath, Tail(entries))

\* createFolderCells(folderPath, true): htmlContent.join('').
createFolderCells(folderPath) ==
  LET cells == htmlContent(folderPath, readFolder(folderPath).entries)
  IN  IF cells = << >> THEN NoHtml
      ELSE [of |-> folderPath, cells |-> cells, thumbnails |-> FALSE]

\* contentBox.querySelectorAll('.directory-cell[data-thumbnail-type="video"]')
videoThumbnailed(innerHTML) ==
  {i \in DOMAIN innerHTML.cells : innerHTML.cells[i].thumbnailType = FileGroupVIDEO}

\* cache.set(key, value)
set(key, value) == [renderCache EXCEPT ![key] = value]

FreeLoads == {l \in LoopIds : loads[l].state = "idle"}
FreeLoad == CHOOSE l \in FreeLoads : \A m \in FreeLoads : l <= m

\* currentAbortController.abort()
abort(lds) ==
  IF currentAbortController # 0
    THEN [lds EXCEPT ![currentAbortController].aborted = TRUE]
    ELSE lds

\* loadContents(path): the timer callback up to its return on a cache hit,
\* or to its await of createFolderCells.
loadContents(path) ==
  /\ FreeLoads # {}
  /\ currentAbortController' = FreeLoad
  /\ IF renderCache[path] # NoHtml
       THEN /\ contentBox' = [innerHTML |-> renderCache[path], nodes |-> 0, path |-> path]
            /\ loads' = abort(loads)
       ELSE /\ contentBox' = [innerHTML |-> NoHtml, nodes |-> 0, path |-> path]
            /\ loads' = [abort(loads) EXCEPT ![FreeLoad] =
                           [state |-> "createFolderCells", path |-> path, aborted |-> FALSE]]
  /\ lastRet' = NoRet
  /\ UNCHANGED <<renderCache, history>>

\* loadContents: await createFolderCells(path, true) has settled.  A folder
\* without video cells has nothing to wait for in loadThumbnails, so the
\* cache entry is written before any other handler runs.
loadContentsCells(l) ==
  /\ loads[l].state = "createFolderCells"
  /\ LET path == loads[l].path
         contents == createFolderCells(path)
     IN  IF ~ PathExists(path) \/ readFolder(path).threw \/ loads[l].aborted
           THEN /\ loads' = [loads EXCEPT ![l] = IdleLoad]
                /\ UNCHANGED <<contentBox, renderCache>>
         ELSE IF videoThumbnailed(contents) # {}
           THEN /\ contentBox' = [contentBox EXCEPT !.innerHTML = contents, !.nodes = l]
                /\ loads' = [loads EXCEPT ![l].state = "loadThumbnails"]
                /\ UNCHANGED renderCache
         ELSE /\ contentBox' = [contentBox EXCEPT !.innerHTML = contents, !.nodes = l]
              /\ renderCache' = set(path, contents)
              /\ loads' = [loads EXCEPT ![l] = IdleLoad]
  /\ lastRet' = NoRet
  /\ UNCHANGED <<currentAbortController, history>>

\* loadContents: await loadThumbnails() has settled.  The thumbnails are
\* put into the cells that were in the container when loadThumbnails
\* started; a thumbnail that cannot be fetched leaves its cell as it was.
loadContentsThumbnails(l) ==
  /\ loads[l].state = "loadThumbnails"
  /\ \E fetched \in BOOLEAN :
       LET innerHTML == IF contentBox.nodes = l /\ fetched
                          THEN [contentBox.innerHTML EXCEPT !.thumbnails = TRUE]
                          ELSE contentBox.innerHTML
       IN  /\ contentBox' = [contentBox EXCEPT !.innerHTML = innerHTML]
           /\ renderCache' = set(loads[l].path, innerHTML)
  /\ loads' = [loads EXCEPT ![l] = IdleLoad]
  /\ lastRet' = NoRet
  /\ UNCHANGED <<currentAbortController, history>>

ScreenInit ==
  /\ listing \in [Roots -> SaveFolders \cup {<< File("b", ".MP4"), Dir("empty") >>}]
  /\ listing[rootA] \in SaveFolders
  /\ listing[rootB] = << File("b", ".MP4"), Dir("empty") >>
  /\ db = [p \in Roots |-> NoLocation]
  /\ InitCache
  /\ entriesManager = << >>
  /\ snapshots = << >>
  /\ visited = << >>

ScreenNext ==
  \/ \E path \in Roots : loadContents(path) /\ NoImageryCache
  \/ \E l \in LoopIds : loadContentsCells(l) /\ NoImageryCache
  \/ \E l \in LoopIds : loadContentsThumbnails(l) /\ NoImageryCache

ScreenSpec == ScreenInit /\ [][ScreenNext]_vars

----------------------------------------------------------------------------
(* History: the folders the user went through, and the position in them.   *)
(* The methods are functions of the object; each gives the object after    *)
(* the call and what the call returns (NoPath for null).                   *)

MaxHistory == 4    \* folders in history.visited

\* visited[index] of JavaScript: zero-based, no path outside the array.
at(array, index) ==
  IF index + 1 \in DOMAIN array THEN array[index + 1] ELSE NoPath

Returned(h, value) == [history |-> h, returns |-> value]

\* A hasPrevious() that also answers true at the first position.
hasPreviousAtStart(h) == h.currentIndex >= 0

\* this.#currentIndex > 0
hasPrevious(h) == h.currentIndex > 0

\* A hasNext() that also answers true at the last position.
hasNextAtEnd(h) == h.currentIndex + 1 <= Len(h.visited)

\* this.visited[this.#currentIndex + 1] !== undefined
hasNext(h) == h.currentIndex + 2 \in DOMAIN h.visited

\* History.previous()
previous(h) ==
  IF ~ hasPrevious(h)
    THEN Returned(h, NoPath)
    ELSE LET moved == [h EXCEPT !.currentIndex = @ - 1]
             there == [moved EXCEPT !.currentPath = at(moved.visited, moved.currentIndex)]
         IN  Returned(there, there.currentPath)

\* History.next()
historyNext(h) ==
  IF ~ hasNext(h)
    THEN Returned(h, NoPath)
    ELSE LET moved == [h EXCEPT !.currentIndex = @ + 1]
             there == [moved EXCEPT !.currentPath = at(moved.visited, moved.currentIndex)]
         IN  Returned(there, there.currentPath)

\* visit(path): with folders ahead and a path other than the current one,
\* the folders ahead are replaced by path; with folders ahead and the
\* current path again, only next() runs; at the end path is appended.
visit(h, path) ==
  IF hasNext(h)
    THEN IF path # h.currentPath
           THEN historyNext([h EXCEPT !.visited =
                               Append(SubSeq(@, 1, h.currentIndex + 1), path)])
           ELSE historyNext(h)
    ELSE historyNext([h EXCEPT !.visited = Append(@, path)])

\* The folders a cell of the screen can name.
Visitable == Roots \cup {InitialPath}

HistoryRet(op, called) ==
  Ret(op, IF called.returns = NoPath THEN "null" ELSE "path",
      NoEntry, called.returns, FALSE, FALSE, 0)

\* Alt+ArrowLeft
historyPrevious ==
  /\ history' = previous(history).history
  /\ lastRet' = HistoryRet("previous", previous(history))

\* Alt+ArrowRight
historyForward ==
  /\ history' = historyNext(history).history
  /\ lastRet' = HistoryRet("next", historyNext(history))

\* A click on the cell of a folder: history.visit(mediaBox.dataset.path)
historyVisit(path) ==
  /\ Len(history.visited) < MaxHistory
  /\ history' = visit(history, path).history
  /\ lastRet' = HistoryRet("visit", visit(history, path))

NoLoad == UNCHANGED <<contentBox, currentAbortController, renderCache, loads>>

HistoryNext ==
  \/ historyPrevious /\ NoLoad /\ NoImageryCache
  \/ historyForward /\ NoLoad /\ NoImageryCache
  \/ \E path \in Visitable : historyVisit(path) /\ NoLoad /\ NoImageryCache

HistorySpec == ScreenInit /\ [][HistoryNext]_vars

----------------------------------------------------------------------------
(* Properties *)

\* C1: a next() call that was suspended while the active path moved to
\* another folder returns null when it completes.
C1_StaleNextReturnsNull ==
  (lastRet.op = "next" /\ lastRet.stale) => lastRet.kind = "null"

\* C3: a next() call that is in flight when its folder stops being the
\* active one does not change that folder's session when it completes.
C3_StaleNextLeavesSession ==
  (lastRet.op = "next" /\ lastRet.stale) => ~ lastRet.mutated

\* C9: in every session the index values of the resolved entries are
\* pairwise distinct and increase in the order the entries were stored.
C9_IndexIncreasing ==
  \A i \in SessionIds : StrictlyIncreasingIndex(sessions[i].okEntries)

\* C4: for a folder with N compatible media files and no sub-folder that is
\* enumerated from the filesystem, the next() calls after the open return
\* exactly N entries with strictly increasing index before done.
C4_MediaFolderYieldsAll ==
  (ReturnedDone /\ pass.path = lastRet.path /\ NoSubFolders(lastRet.path)
     /\ ~ db[lastRet.path].present)
    => /\ Len(trace) = Cardinality(MediaFiles(lastRet.path))
       /\ StrictlyIncreasingIndex(trace)

C4_Witness ==
  /\ ReturnedDone /\ pass.path = lastRet.path /\ NoSubFolders(lastRet.path)
  /\ ~ db[lastRet.path].present
  /\ Cardinality(MediaFiles(lastRet.path)) = 2
  /\ Len(listing[lastRet.path]) = 3
  /\ Len(trace) = 2

\* The session next() returned from, and the raw entry it consumed last.
LastSession == sessions[lastRet.cache]
LastRaw == LastSession.allEntries[LastSession.processed]

Titles(entries) == {entries[i].title : i \in DOMAIN entries}

\* C6: a raw entry that is an incompatible file or a folder without
\* reachable media makes next() return null with the cursor advanced past it
\* and nothing stored for it; at done every raw entry has been consumed and
\* every resolvable entry after a skipped one has its record.  A caller that
\* keeps pulling always reaches done.
C6_SkipInvariant ==
  /\ (lastRet.op = "next" /\ lastRet.kind = "null")
       => /\ LastSession.processed >= 1
          /\ ~ Resolvable(lastRet.path, LastRaw)
          /\ LastRaw.name \notin Titles(LastSession.okEntries)
  /\ (ReturnedDone /\ ~ db[lastRet.path].present)
       => /\ LastSession.processed = Len(listing[lastRet.path])
          /\ \A i \in DOMAIN LastSession.allEntries :
               Resolvable(lastRet.path, LastSession.allEntries[i])
                 <=> LastSession.allEntries[i].name \in Titles(LastSession.okEntries)

C6_SkippedEntriesDoNotBlock ==
  /\ [] C6_SkipInvariant
  /\ [] ((activePath # NoPath /\ getCache(activePath) # 0) => <> ReturnedDone)

C6_Witness ==
  /\ ReturnedDone
  /\ \E i, j \in DOMAIN LastSession.allEntries :
       /\ i < j
       /\ ~ Resolvable(lastRet.path, LastSession.allEntries[i])
       /\ LastSession.allEntries[i].isDirectory
       /\ LastSession.allEntries[j].name \in Titles(trace)

\* C7: next() returns done only from a session in which every raw entry has
\* been consumed and no resolved entry is left at the cursor; after a done,
\* every next() returns done until prepareEntries is issued again.
C7_DoneOnlyWhenExhausted ==
  (lastRet'.op = "next" /\ lastRet'.kind = "done")
    => /\ sessions[lastRet'.cache].processed >= Len(sessions[lastRet'.cache].allEntries)
       /\ sessions[lastRet'.cache].currentIndex >= Len(sessions[lastRet'.cache].okEntries)
       /\ sessions'[lastRet'.cache] =
            [sessions[lastRet'.cache] EXCEPT
               !.processed = Len(sessions[lastRet'.cache].allEntries)]

C7_DoneIsFinal ==
  /\ [][C7_DoneOnlyWhenExhausted]_vars
  /\ [][(finished >= 1 /\ lastRet'.op = "next") => lastRet'.kind = "done"]_vars

C7_Witness == ReturnedDone /\ finished = 2 /\ Len(trace) >= 1

\* C10: re-opening a folder that was resolved up to done puts the cursor of
\* its in-memory session back to 0, and pulling until done then returns the
\* entries of the first resolution in the same order, without a directory
\* read or stat.
C10_ReopenReplaysFromMemory ==
  /\ (lastRet.op = "prepareEntries" /\ lastRet.kind = "ok" /\ pass.again)
       => sessions[getCache(activePath)].currentIndex = 0
  /\ (ReturnedDone /\ pass = [path |-> lastRet.path, again |-> TRUE])
       => /\ trace = firstPass[lastRet.path].entries
          /\ ~ fsTouched

C10_Witness ==
  /\ ReturnedDone /\ pass = [path |-> lastRet.path, again |-> TRUE]
  /\ Len(trace) >= 2
  /\ \E i \in DOMAIN trace : ~ trace[i].isMedia

\* C2: no entry built from the directory listing of one folder is stored in
\* the session of another folder, and no card built from the listing of a
\* folder other than the displayed one is in the view.
C2_NoLeakBetweenFolders ==
  /\ \A i \in SessionIds : \A k \in DOMAIN sessions[i].okEntries :
       sessions[i].okEntries[k].src = sessions[i].owner
  /\ \A k \in DOMAIN box.cards : box.cards[k].src = box.path

\* C8: the resolved entries of a session never hold two entries with the
\* same title.
C8_DistinctTitles ==
  \A i \in SessionIds : \A j, k \in DOMAIN sessions[i].okEntries :
    sessions[i].okEntries[j].title = sessions[i].okEntries[k].title => j = k

\* C5: the pull loop stops calling next() only after next() has returned
\* the done sentinel: a null result does not stop it.
C5_LoopStopsOnlyAtDone ==
  \A l \in LoopIds :
    (loops[l].state \in {"returned", "rejected"} /\ loops[l].last # "none")
      => loops[l].last = "done"

\* C11: a sub-folder from which no compatible media file is reachable
\* within 10 dequeues of the breadth-first search never has an entry among
\* the resolved entries of its parent folder.
C11_UnreachableNeverResolved ==
  \A e \in FolderEntries : FirstMediaFolder(SubFolderOf(e)) # NoPath

C11_Witness ==
  /\ ReturnedDone
  /\ \E i \in DOMAIN LastSession.allEntries :
       /\ LastSession.allEntries[i].name = Name("wider")
       /\ Name("wider") \notin Titles(LastSession.okEntries)
  /\ \E e \in FolderEntries : e.src = lastRet.path

\* C12: one next() call reads at most 10 folders, and a next() call that
\* is searching always completes.
SearchingCalls == {c \in CallIds : calls[c].op = "next" /\ calls[c].pc = "readFolder"}

C12_SearchBounded ==
  /\ [] (\A c \in CallIds : Len(calls[c].dequeued) <= 10)
  /\ \A c \in CallIds : (c \in SearchingCalls) ~> (c \notin SearchingCalls)

C12_Witness ==
  \E c \in SearchingCalls :
    /\ Len(calls[c].dequeued) = 10
    /\ Len(calls[c].currentFolderPath) = 11

\* C13: the path of a resolved folder entry is the sub-folder itself when
\* the thumbnail file lies directly in it, and otherwise the parent of the
\* folder that directly contains the thumbnail file.
C13_EffectivePath ==
  \A e \in FolderEntries :
    LET holder == dirname(e.thumbnailPath)
    IN  e.path = IF holder = SubFolderOf(e) THEN SubFolderOf(e) ELSE dirname(holder)

C13_Witness ==
  \E e \in FolderEntries :
    /\ Len(e.thumbnailPath) = Len(SubFolderOf(e)) + 3
    /\ e.path = dirname(dirname(e.thumbnailPath))
    /\ e.path # SubFolderOf(e)

\* C14: the thumbnail of a resolved folder entry is the first compatible
\* media file, in enumeration order, of the first folder in breadth-first
\* order that holds a compatible media file.
C14_FirstMediaBreadthFirst ==
  \A e \in FolderEntries :
    /\ FirstMediaFolder(SubFolderOf(e)) # NoPath
    /\ e.thumbnailPath = FirstMediaFile(FirstMediaFolder(SubFolderOf(e)))

C14_Witness ==
  \E e \in FolderEntries :
    /\ e.title = Name("fork")
    /\ e.thumbnailPath = join(join(SubFolderOf(e), Name("r")), <<"second", ".mp4">>)

\* C15: when prepareEntries(B) is called while another folder A is the
\* active one and A's session is not flagged to persist, A's session is
\* removed from memory and the deletion of A's database record is issued.
C15_SwitchAwayDropsSession ==
  [][\A folderPath \in Roots :
       (/\ prepareEntries(folderPath)
        /\ activePath \in Roots \ {folderPath}
        /\ getCache(activePath) # 0
        /\ sessions[getCache(activePath)].persistData # "true")
         => /\ memory'[activePath] = 0
            /\ db[activePath].present
                 => \E op \in dbOps' : op.kind = "delete" /\ op.path = activePath]_vars

\* C17: every snapshot file, and every write of one that is under way, is
\* for a folder that prepareEntries was called for with cache = true.
C17_OnlyRememberedFoldersSaved ==
  /\ \A f \in DOMAIN snapshots : snapshots[f].exists => snapshots[f].savedFor \in remembered
  /\ \A op \in fsOps : op.kind = "writeFile" => op.savedFor \in remembered

\* C16: when prepareEntries(B) is called while a folder A that was opened
\* with cache = true is the active one, the write of A's session, with its
\* processed entries, to A's snapshot file is issued, and A's session is
\* then removed from the session map.
C16_SwitchAwaySavesThenDrops ==
  [][\A folderPath \in DOMAIN listing, cache \in BOOLEAN :
       (/\ prepareEntriesGz(folderPath, cache)
        /\ activePath \in DOMAIN listing \ {folderPath}
        /\ cacheActivePath
        /\ entriesManager[activePath].exists)
         => /\ \E op \in fsOps' :
                 /\ op.kind = "writeFile"
                 /\ op.file = cachedFileDestination(activePath)
                 /\ op.data = stringify(entriesManager[activePath])
            /\ ~ entriesManager'[activePath].exists]_vars

\* C20: a snapshot file that is the destination of a folder path holds what
\* was saved for that path, and a session loaded from a snapshot was saved
\* for the path it is loaded for.
C20_OneSnapshotPerPath ==
  /\ \A p \in DOMAIN listing :
       snapshots[cachedFileDestination(p)].exists
         => snapshots[cachedFileDestination(p)].savedFor = p
  /\ \A p \in DOMAIN entriesManager :
       entriesManager[p].savedFor \in {NoPath, p}

\* The same entries, in any order.
SameEntries(a, b) ==
  Len(a) = Len(b) /\ {a[i] : i \in DOMAIN a} = {b[i] : i \in DOMAIN b}

\* C18: opening a folder that has no session in memory but a record in the
\* database does not fail and creates a session with cursor 0 whose resolved
\* entries are the rows of the record; next() then returns exactly these
\* entries and after them done, and the folder is never read.
C18_RecordOpensAsSession ==
  /\ (lastRet.op = "prepareEntries" /\ db[lastRet.path].present) =>
        /\ lastRet.kind = "ok"
        /\ getCache(lastRet.path) # 0
        /\ sessions[getCache(lastRet.path)].currentIndex = 0
        /\ SameEntries(sessions[getCache(lastRet.path)].okEntries, db[lastRet.path].rows)
  /\ (ReturnedDone /\ pass.path = lastRet.path /\ db[lastRet.path].present) =>
        /\ SameEntries(trace, db[lastRet.path].rows)
        /\ ~ fsTouched

\* C19: once save() has stored the session of a folder, the database holds
\* the resolved entries the session had, in their order and with their
\* index values, and a later run that opens the folder from the database
\* gets exactly these entries, whatever other folders were saved meanwhile.
C19_SaveThenLoad ==
  \A p \in Roots :
    (saved[p].put /\ AllIdle) =>
      /\ db[p].present
      /\ db[p].rows = saved[p].okEntries
      /\ (getCache(p) # 0 /\ sessions[getCache(p)].allEntries = << >>) =>
            sessions[getCache(p)].okEntries = saved[p].okEntries

\* C21: prepareEntries for a folder whose snapshot file cannot be
\* decompressed and parsed does not throw: the folder becomes the active one
\* and gets a session that holds the entries read from the filesystem.
C21_UnreadableSnapshotOpensCold ==
  /\ lastRet.op = "prepareEntries" => lastRet.kind = "ok"
  /\ \A p \in DOMAIN listing :
       (/\ lastRet.op = "prepareEntries" /\ lastRet.path = p
        /\ pathInCache(p) /\ unreadable(snapshots[cachedFileDestination(p)]))
         => /\ activePath = p
            /\ entriesManager[p].exists
            /\ entriesManager[p].unprocessedEntries =
                 [i \in DOMAIN listing[p] |-> ImageryDirentGz(listing[p][i])]

\* C22: whatever the state, a next() call completes with an entry, with
\* null or with the done sentinel, never with an exception.
C22_NextNeverThrows ==
  lastRet.op = "next" => lastRet.kind \in {"entry", "null", "done"}

\* C23: prepareEntries for a folder whose enumeration is refused with a
\* permission error completes without error and leaves a session without
\* entries, and next() on that folder returns done.
C23_DeniedFolderOpensEmpty ==
  \A p \in Roots :
    IsDenied(listing[p]) =>
      /\ (lastRet.op = "prepareEntries" /\ lastRet.path = p) =>
            /\ lastRet.kind = "ok"
            /\ getCache(p) # 0
            /\ sessions[getCache(p)].allEntries = << >>
            /\ sessions[getCache(p)].okEntries = << >>
      /\ (lastRet.op = "next" /\ activePath = p) => lastRet.kind = "done"

\* The folders whose snapshot is kept in the file.
FoldersOf(file) == {p \in DOMAIN listing : cachedFileDestination(p) = file}

\* A snapshot file that clearOldCache is about to unlink.
Expiring(file) ==
  \E op \in fsOps : op.kind = "unlink" /\ op.file = file /\ op.data = << "expired" >>

\* C24: clearOldCache unlinks the snapshot of a folder only if the folder was
\* last used (opened or pulled from) more than the maximum age ago, and it
\* does unlink every snapshot it finds of a folder last used that long ago.
C24_SweepDeletesOnlyUnvisited ==
  /\ [] \A f \in DOMAIN snapshots :
          Expiring(f) => \A p \in FoldersOf(f) : (now - visited[p]) > DefaultMaxAgeInDays
  /\ [][\A f \in DOMAIN snapshots :
          (/\ clearOldCacheStat
           /\ \E op \in fsOps \ fsOps' : op.kind = "stat" /\ op.file = f
           /\ snapshots[f].exists
           /\ \A p \in FoldersOf(f) : (now - visited[p]) > DefaultMaxAgeInDays)
            => Expiring(f)']_vars

\* C25: once the container shows another folder, the addContent() loop of
\* the folder that was left asks for no further next-content.
C25_LeftLoopIssuesNoNext ==
  [][\A l \in LoopIds : loops[l].path # box.path => ~ getNextContent(l)]_vars

\* C26: one next() call uses one value of the active path: the entry it
\* returns has as destination the folder under which the call looked up
\* its session and joined the entry name, and the database update it issues
\* addresses the record of that folder.
C26_OneActivePathPerNext ==
  /\ (lastRet.op = "next" /\ lastRet.kind = "entry") =>
       lastRet.entry.destination = lastRet.entry.src
  /\ \A op \in dbOps : op.kind = "update" => op.path = op.entry.src

\* C27: a step raises the number of consumed raw entries of a session by at
\* most one, and only the start of a next() call raises it: after k next()
\* calls at most k raw entries have been consumed.
C27_OneRawEntryPerNext ==
  [][\A i \in SessionIds :
       /\ sessions'[i].processed <= sessions[i].processed + 1
       /\ sessions'[i].processed > sessions[i].processed => next]_vars

\* Two next() calls have consumed the two raw entries of a folder.
C27_Witness ==
  \E i \in SessionIds :
    /\ sessions[i].exists /\ sessions[i].processed = 2
    /\ Len(sessions[i].allEntries) > 2
    /\ lastRet.op = "next" /\ lastRet.cache = i

\* C29: when the stat of #populateMetadata fails, the next() call still
\* returns the entry and appends it to the session, with size, dateCreated,
\* dateModified and dateTaken empty.
C29_StatFailureKeepsEntry ==
  [][\A c \in CallIds :
       (pushNewEntry(c) /\ ~ PathExists(calls[c].entry.path)) =>
         LET stored == sessions'[calls[c].cache].okEntries
         IN  /\ lastRet'.op = "next" /\ lastRet'.kind = "entry"
             /\ lastRet'.entry.title = calls[c].title
             /\ lastRet'.entry.size = "" /\ lastRet'.entry.dateCreated = ""
             /\ lastRet'.entry.dateModified = "" /\ lastRet'.entry.dateTaken = ""
             /\ Len(stored) = Len(sessions[calls[c].cache].okEntries) + 1
             /\ stored[Len(stored)] = lastRet'.entry]_vars

\* next() has returned an entry whose file was deleted before its stat.
C29_Witness ==
  /\ lastRet.op = "next" /\ lastRet.kind = "entry"
  /\ ~ PathExists(lastRet.entry.path)
  /\ lastRet.entry.size = ""
  /\ lastRet.cache # 0 /\ sessions[lastRet.cache].exists
  /\ \E k \in DOMAIN sessions[lastRet.cache].okEntries :
       sessions[lastRet.cache].okEntries[k] = lastRet.entry

\* C28: the thumbnailPath of every resolved folder entry names an existing
\* compatible media file that lies below the sub-folder the entry stands
\* for; no folder entry has an empty thumbnailPath.
IsMediaFileOnDisk(path) ==
  /\ Len(path) >= 2
  /\ isMediaFile(basename(path))
  /\ LET parent == readdir(dirname(path))
     IN  /\ parent.status = "ok"
         /\ \E i \in DOMAIN parent.entries :
              parent.entries[i] = [name |-> basename(path), type |-> "file"]

Below(path, folder) ==
  /\ Len(path) > Len(folder)
  /\ SubSeq(path, 1, Len(folder)) = folder

C28_FolderThumbnailInSubtree ==
  \A e \in FolderEntries :
    /\ e.thumbnailPath # NoPath
    /\ Below(e.thumbnailPath, SubFolderOf(e))
    /\ IsMediaFileOnDisk(e.thumbnailPath)

\* A folder entry whose thumbnail was found two folders below the
\* sub-folder, next to one whose thumbnail lies directly in it.
C28_Witness ==
  /\ \E e \in FolderEntries : Len(e.thumbnailPath) = Len(SubFolderOf(e)) + 3
  /\ \E e \in FolderEntries : e.thumbnailPath = join(SubFolderOf(e), <<"cover", ".png">>)

\* C30: whenever another prepareEntries can start, the active path names a
\* folder that has a session in memory, and the start of a prepareEntries
\* call never throws, whatever an earlier call is waiting for or has left
\* behind.
C30_OpenAfterUnfinishedOpen ==
  /\ [] (activePath # NoPath => getCache(activePath) # 0)
  /\ [][\A folderPath \in Roots :
          prepareEntries(folderPath) => lastRet'.kind # "throw"]_vars

\* C31: when no prepareEntries call is pending and no folder was opened
\* with the cache flag, entriesManager holds a session for the active
\* folder only.
C31_OnlyActiveFolderInMemory ==
  (AllIdle /\ remembered = {}) =>
    \A p \in DOMAIN entriesManager : entriesManager[p].exists => p = activePath

\* C32: a folder that was left with part of its entries resolved and is
\* opened again while nothing else is running is pulled to its end: the
\* addContent() loop started for it asks for at least as many indexes as
\* the folder has compatible media files and sub-folders with reachable
\* media, so that each of them can be yielded.
ResolvableEntries(folderPath) ==
  {i \in DOMAIN listing[folderPath] :
     Resolvable(folderPath, ImageryDirent(i - 1, listing[folderPath][i]))}

NothingElseRunning(c) ==
  /\ \A d \in CallIds \ {c} : calls[d].op = "idle"
  /\ \A l \in LoopIds \ {calls[c].loop} : loops[l].state \notin {"preparing", "pulling"}

C32_ReopenedFolderYieldsAll ==
  [][\A c \in CallIds :
       (prepareEntriesByIndexHit(c) /\ NothingElseRunning(c)) =>
         loops'[calls[c].loop].entriesLength >= Cardinality(ResolvableEntries(calls[c].path))]_vars

\* C33: what the render cache holds under a folder path is the rendering
\* of that folder: a loadContents() call that a later call has superseded
\* never stores another folder's content under its own path.
C33_CacheHoldsOwnFolder ==
  \A p \in Roots : renderCache[p] # NoHtml => renderCache[p].of = p

\* C34: save() for a folder that already has a record in the database does
\* not fail: it is never rejected because of the record that exists, and
\* the record of a folder never holds two rows of the same entry.
C34_SecondSaveReplacesRecord ==
  /\ [] (\A p \in Roots : \A i, j \in DOMAIN db[p].rows :
           db[p].rows[i].title = db[p].rows[j].title => i = j)
  /\ [][\A c \in CallIds :
          (/\ saveLocationCreated(c)
           /\ calls[c].path \in Roots
           /\ db[calls[c].path].present)
            => lastRet'.kind # "throw"]_vars

\* The history object is well formed: the current index is a position of
\* visited and the current path is the folder at that position.
WellFormed(h) ==
  /\ h.currentIndex \in 0 .. Len(h.visited) - 1
  /\ h.currentPath = at(h.visited, h.currentIndex)

\* C35: after any sequence of visit(), previous() and next() the current
\* index is a position of visited and currentPath is the folder at that
\* position; previous() at the first position and next() at the last
\* position return null and leave the object as it was.
C35_HistoryWellFormed ==
  /\ [] WellFormed(history)
  /\ [][/\ (historyPrevious /\ history.currentIndex = 0) =>
             (lastRet'.kind = "null" /\ history' = history)
        /\ (historyForward /\ history.currentIndex = Len(history.visited) - 1) =>
             (lastRet'.kind = "null" /\ history' = history)]_vars

\* previous() was refused at the first position of a history of several
\* folders.
C35_Witness ==
  /\ lastRet.op = "previous" /\ lastRet.kind = "null"
  /\ history.currentIndex = 0
  /\ Len(history.visited) = MaxHistory

\* C36: after visit(p) the current path is p and p is the last folder of
\* visited; the folders that were ahead of the former position are gone and
\* the folders up to the former position are as they were.
C36_VisitAppends ==
  [][\A p \in Visitable :
       historyVisit(p) =>
         /\ history'.currentPath = p
         /\ history'.visited[Len(history'.visited)] = p
         /\ history'.visited =
              Append(SubSeq(history.visited, 1, history.currentIndex + 1), p)]_vars

====
